---- MODULE Spec2Model ----
(***************************************************************************)
(* Model of the scstadmin reconciliation engine: the writers of            *)
(* scstadmin/writers, the orchestrator of scstadmin/admin.py and the sysfs *)
(* control plane they drive.  The live tree is a record `k`; every         *)
(* write_sysfs call is recorded in `log`, in the order it is issued.       *)
(*                                                                         *)
(* Python dicts iterate in insertion order and sets / os.listdir in an     *)
(* unspecified one; the model iterates all of them in ascending key order  *)
(* (the order of DevSeq, LunSeq, ...), i.e. it takes configurations that   *)
(* were written in that order.  `tree0` keeps the live tree the first call  *)
(* started from.                                                           *)
(***************************************************************************)
EXTENDS Integers, Sequences, FiniteSets, TLC

VARIABLES pc, k, log, cfg, raised, warned, pass, arg, ret, clock, tree0

vars == <<pc, k, log, cfg, raised, warned, pass, arg, ret, clock, tree0>>

(***************************************************************************)
(* Bounds of the model                                                     *)
(***************************************************************************)
NumDevs == 3
NumLuns == 2

DevSeq == [i \in 1..NumDevs |-> "d" \o ToString(i)]
LunSeq == [i \in 1..NumLuns |-> ToString(i - 1)]
\* LUN numbers the kernel may hand out by itself on copy_manager_tgt
AutoLunSeq == [i \in 1..(NumLuns + NumDevs) |-> ToString(i - 1)]
TgtSeq == <<"t1", "t2", "t3">>
GrpSeq == <<"g1", "g2">>
IniSeq == <<"i1", "i2", "i3">>
DgSeq == <<"dg1", "dg2">>
TgSeq == <<"tg1", "tg2">>
SessSeq == <<"s1", "s2">>
DrvSeq == <<"copy_manager", "iscsi">>
HandlerSeq == <<"vdisk_blockio", "vdisk_fileio">>

Range(s) == {s[i] : i \in 1..Len(s)}
Devs == Range(DevSeq)
Luns == Range(LunSeq)
AutoLuns == Range(AutoLunSeq)
Tgts == Range(TgtSeq)
Grps == Range(GrpSeq)
Inis == Range(IniSeq)
Dgs == Range(DgSeq)
Tgs == Range(TgSeq)
Sess == Range(SessSeq)
Handlers == Range(HandlerSeq)

\* the members of S in the order of the sequence u
Ordered(u, S) == SelectSeq(u, LAMBDA x : x \in S)

\* for x in xs: w = Op(w, x)
FoldSeq(Op(_, _), w0, xs) ==
    LET it[i \in 0..Len(xs)] == IF i = 0 THEN w0 ELSE Op(it[i - 1], xs[i])
    IN it[Len(xs)]

Empty == [x \in {} |-> ""]
Restrict(f, S) == [x \in (DOMAIN f) \cap S |-> f[x]]
Without(f, S) == [x \in (DOMAIN f) \ S |-> f[x]]
With(f, x, v) == [y \in (DOMAIN f) \cup {x} |-> IF y = x THEN v ELSE f[y]]
\* dict.get(x, d)
Get(f, x, d) == IF x \in DOMAIN f THEN f[x] ELSE d

(***************************************************************************)
(* Program constants                                                       *)
(***************************************************************************)
SUCCESS_RESULT == "0"
MGMT_INTERFACE == "mgmt"
CM == <<"copy_manager", "copy_manager_tgt">>

\* the creation parameters of a handler that the model's devices use
\* (a subset of DeviceConfig._CREATION_PARAMS, the same for both vdisk handlers)
CREATION_PARAMS == {"filename", "read_only"}
\* an attribute outside _CREATION_PARAMS: settable after creation
POST_ATTRS == {"prod_id"}
DevAttrNames == CREATION_PARAMS \cup POST_ATTRS
\* values the kernel shows for attributes that were never set
DevDefault == [filename |-> "", read_only |-> "0", prod_id |-> "dflt"]

(***************************************************************************)
(* The control plane (live tree).                                          *)
(*   k.dev[d]   = [handler, attrs]   attrs is total on DevAttrNames; an    *)
(*                attribute shows the [key] marker iff it is not default   *)
(*   k.tgt[<<drv, t>>] = [attrs, luns, groups, sessions]                   *)
(*                luns: lun -> device;  groups[g] = [inis, luns]           *)
(*   k.dg[g]    = [devices, tgs]     tgs[tg] = [targets]                   *)
(*   k.drv[drv] = [enabled]                                                *)
(*   k.scst     = global attributes                                        *)
(***************************************************************************)
\* attributes of the iscsi driver and of the SCST root, with their defaults
DrvDefault == [enabled |-> "0", link_local |-> "1"]
ScstDefault == [setup_id |-> "0"]
NewTarget == [attrs |-> [enabled |-> "0", HeaderDigest |-> "None"], luns |-> Empty, groups |-> Empty,
              sessions |-> {}, stuck |-> {}]
NewGroup == [inis |-> {}, luns |-> Empty]
NewDg == [devices |-> {}, tgs |-> Empty]
NewTg == [targets |-> {}]

HasKey(k0, d, a) == k0.dev[d].attrs[a] # DevDefault[a]

\* a write command: kind of file, the entities on its path, verb, arguments
Cmd(kind, p, op, x, y, v) == [kind |-> kind, p |-> p, op |-> op, x |-> x, y |-> y, v |-> v]

LowestFree(used) ==
    LET free == Ordered(AutoLunSeq, AutoLuns \ used)
    IN IF free = <<>> THEN "" ELSE free[1]

\* every LUN that maps to device d disappears with the device
DropDevLuns(luns, d) == Restrict(luns, {l \in DOMAIN luns : luns[l] # d})

DropDevFromTarget(t, d) ==
    [t EXCEPT !.luns = DropDevLuns(@, d),
              !.groups = [g \in DOMAIN @ |-> [@[g] EXCEPT !.luns = DropDevLuns(@, d)]]]

TgtKey(c) == <<c.p[1], c.p[2]>>

\* the attributes of a target inside a target group
TgTargetAttrNames == {"rel_tgt_id"}
TgTargetDefault == [a \in TgTargetAttrNames |-> "0"]

\* the targets of the local drivers that carry the name t
Local(k0, t) == {key \in DOMAIN k0.tgt : key[2] = t}

\* target_groups/<tg>/<t> is a directory when the target is not a local one,
\* a link to targets/<driver>/<t> when it is
IsLink(k0, g, tg, t) ==
    /\ g \in DOMAIN k0.dg /\ tg \in DOMAIN k0.dg[g].tgs /\ t \in k0.dg[g].tgs[tg].targets
    /\ <<g, tg, t>> \notin DOMAIN k0.tgattr

\* os.path.isdir follows a link: true for a directory and for a link whose
\* target directory exists
IsDir(k0, g, tg, t) ==
    \/ <<g, tg, t>> \in DOMAIN k0.tgattr
    \/ IsLink(k0, g, tg, t) /\ Local(k0, t) # {}

\* the first line of target_groups/<tg>/<t>/<attribute>
ReadTgTargetAttr(k0, g, tg, t, a) ==
    IF <<g, tg, t>> \in DOMAIN k0.tgattr THEN k0.tgattr[<<g, tg, t>>][a]
    ELSE LET key == CHOOSE x \in Local(k0, t) : TRUE
         IN IF key \in DOMAIN k0.rel THEN k0.rel[key] ELSE TgTargetDefault[a]

\* does the control plane accept the write?  (write_sysfs raises when the
\* path is missing or the result register reports a failure; k0.broken
\* holds the writes the kernel refuses for a reason outside the tree)
Accepts(k0, c) ==
    /\ <<c.kind, c.op>> \notin k0.broken
    /\ CASE c.kind = "handler_mgmt" ->
           IF c.op = "add_device"
           THEN c.x \notin DOMAIN k0.dev
           ELSE c.x \in DOMAIN k0.dev /\ k0.dev[c.x].handler = c.p[1]
      [] c.kind = "device_attr" ->
           /\ c.p[2] \in DOMAIN k0.dev
           /\ k0.dev[c.p[2]].handler = c.p[1]
           /\ c.x \in DevAttrNames
      [] c.kind = "driver_mgmt" ->
           IF c.op = "add_target"
           THEN <<c.p[1], c.x>> \notin DOMAIN k0.tgt
           ELSE <<c.p[1], c.x>> \in DOMAIN k0.tgt /\ <<c.p[1], c.x>> # CM
      [] c.kind = "driver_attr" -> c.p[1] \in DOMAIN k0.drv /\ c.x \in DOMAIN k0.drv[c.p[1]]
      [] c.kind = "target_attr" ->
           TgtKey(c) \in DOMAIN k0.tgt /\ c.x \in DOMAIN k0.tgt[TgtKey(c)].attrs
      [] c.kind = "luns_mgmt" ->
           /\ TgtKey(c) \in DOMAIN k0.tgt
           /\ CASE c.op = "add" -> c.x \notin DOMAIN k0.tgt[TgtKey(c)].luns
                                   /\ c.y \in DOMAIN k0.dev
                [] c.op = "del" -> c.x \in DOMAIN k0.tgt[TgtKey(c)].luns
                [] OTHER -> TRUE
      [] c.kind = "groups_mgmt" ->
           /\ TgtKey(c) \in DOMAIN k0.tgt
           /\ IF c.op = "create"
              THEN c.x \notin DOMAIN k0.tgt[TgtKey(c)].groups
              ELSE c.x \in DOMAIN k0.tgt[TgtKey(c)].groups
      [] c.kind = "group_luns_mgmt" ->
           /\ TgtKey(c) \in DOMAIN k0.tgt
           /\ c.p[3] \in DOMAIN k0.tgt[TgtKey(c)].groups
           /\ CASE c.op = "add" -> c.x \notin DOMAIN k0.tgt[TgtKey(c)].groups[c.p[3]].luns
                                   /\ c.y \in DOMAIN k0.dev
                [] c.op = "del" -> c.x \in DOMAIN k0.tgt[TgtKey(c)].groups[c.p[3]].luns
                [] OTHER -> TRUE
      [] c.kind = "group_inis_mgmt" ->
           /\ TgtKey(c) \in DOMAIN k0.tgt
           /\ c.p[3] \in DOMAIN k0.tgt[TgtKey(c)].groups
           /\ IF c.op = "add"
              THEN c.x \notin k0.tgt[TgtKey(c)].groups[c.p[3]].inis
              ELSE c.x \in k0.tgt[TgtKey(c)].groups[c.p[3]].inis
      [] c.kind = "force_close" ->
           TgtKey(c) \in DOMAIN k0.tgt /\ c.p[3] \in k0.tgt[TgtKey(c)].sessions
      [] c.kind = "dg_mgmt" ->
           IF c.op = "create" THEN c.x \notin DOMAIN k0.dg ELSE c.x \in DOMAIN k0.dg
      [] c.kind = "dg_devices_mgmt" ->
           /\ c.p[1] \in DOMAIN k0.dg
           /\ IF c.op = "add"
              THEN c.x \in DOMAIN k0.dev /\ c.x \notin k0.dg[c.p[1]].devices
              ELSE c.x \in k0.dg[c.p[1]].devices
      [] c.kind = "dg_tgroups_mgmt" ->
           /\ c.p[1] \in DOMAIN k0.dg
           /\ IF c.op = "add"
              THEN c.x \notin DOMAIN k0.dg[c.p[1]].tgs
              ELSE c.x \in DOMAIN k0.dg[c.p[1]].tgs
      [] c.kind = "tg_mgmt" ->
           /\ c.p[1] \in DOMAIN k0.dg
           /\ c.p[2] \in DOMAIN k0.dg[c.p[1]].tgs
           /\ IF c.op = "add"
              THEN c.x \notin k0.dg[c.p[1]].tgs[c.p[2]].targets
              ELSE c.x \in k0.dg[c.p[1]].tgs[c.p[2]].targets
      \* the attribute file of a target inside a target group: the entry is a
      \* directory of its own, or a link to the directory of a local target
      [] c.kind = "tg_target_attr" ->
           /\ IsDir(k0, c.p[1], c.p[2], c.p[3])
           /\ c.x \in TgTargetAttrNames
      [] c.kind = "scst_attr" -> c.x \in DOMAIN k0.scst
      \* /sys/kernel/scst_tgt/suspend is always there
      [] c.kind = "suspend" -> TRUE
      [] OTHER -> FALSE

\* the live tree after an accepted write
Effect(k0, c) ==
    CASE c.kind = "handler_mgmt" /\ c.op = "add_device" ->
           \* the kernel gives every new device a LUN on copy_manager_tgt
           LET auto == LowestFree(DOMAIN k0.tgt[CM].luns)
           IN [k0 EXCEPT
                 !.dev = With(@, c.x, [handler |-> c.p[1],
                                       attrs |-> [a \in DevAttrNames |-> Get(c.v, a, DevDefault[a])]]),
                 !.tgt[CM].luns = IF auto = "" THEN @ ELSE With(@, auto, c.x)]
      [] c.kind = "handler_mgmt" /\ c.op = "del_device" ->
           [k0 EXCEPT
              !.dev = Without(@, {c.x}),
              !.tgt = [t \in DOMAIN @ |-> DropDevFromTarget(@[t], c.x)],
              !.dg = [g \in DOMAIN @ |-> [@[g] EXCEPT !.devices = @ \ {c.x}]]]
      [] c.kind = "device_attr" -> [k0 EXCEPT !.dev[c.p[2]].attrs[c.x] = c.y]
      [] c.kind = "driver_mgmt" /\ c.op = "add_target" ->
           [k0 EXCEPT !.tgt = With(@, <<c.p[1], c.x>>, NewTarget)]
      [] c.kind = "driver_mgmt" /\ c.op = "del_target" ->
           [k0 EXCEPT !.tgt = Without(@, {<<c.p[1], c.x>>}),
                      !.rel = Without(@, {<<c.p[1], c.x>>})]
      \* writing an empty line resets the attribute
      [] c.kind = "driver_attr" ->
           [k0 EXCEPT !.drv[c.p[1]][c.x] = IF c.y = "\n" THEN DrvDefault[c.x] ELSE c.y]
      [] c.kind = "target_attr" -> [k0 EXCEPT !.tgt[TgtKey(c)].attrs[c.x] = c.y]
      [] c.kind = "luns_mgmt" ->
           [k0 EXCEPT !.tgt[TgtKey(c)].luns =
              CASE c.op = "add" -> With(@, c.x, c.y)
                [] c.op = "del" -> Without(@, {c.x})
                [] OTHER -> Empty]
      [] c.kind = "groups_mgmt" ->
           [k0 EXCEPT !.tgt[TgtKey(c)].groups =
              IF c.op = "create" THEN With(@, c.x, NewGroup) ELSE Without(@, {c.x})]
      [] c.kind = "group_luns_mgmt" ->
           [k0 EXCEPT !.tgt[TgtKey(c)].groups[c.p[3]].luns =
              CASE c.op = "add" -> With(@, c.x, c.y)
                [] c.op = "del" -> Without(@, {c.x})
                [] OTHER -> Empty]
      [] c.kind = "group_inis_mgmt" ->
           [k0 EXCEPT !.tgt[TgtKey(c)].groups[c.p[3]].inis =
              IF c.op = "add" THEN @ \cup {c.x} ELSE @ \ {c.x}]
      \* the session closes later, if it closes at all
      [] c.kind = "force_close" -> k0
      [] c.kind = "dg_mgmt" ->
           [k0 EXCEPT !.dg = IF c.op = "create" THEN With(@, c.x, NewDg) ELSE Without(@, {c.x}),
                      !.tgattr = Without(@, {e \in DOMAIN @ : e[1] = c.x})]
      [] c.kind = "dg_devices_mgmt" ->
           [k0 EXCEPT !.dg[c.p[1]].devices = IF c.op = "add" THEN @ \cup {c.x} ELSE @ \ {c.x}]
      [] c.kind = "dg_tgroups_mgmt" ->
           [k0 EXCEPT !.dg[c.p[1]].tgs =
              IF c.op = "add" THEN With(@, c.x, NewTg) ELSE Without(@, {c.x}),
                      !.tgattr = Without(@, {e \in DOMAIN @ : e[1] = c.p[1] /\ e[2] = c.x})]
      \* a target that is not local gets a directory with its attributes
      [] c.kind = "tg_mgmt" ->
           [k0 EXCEPT !.dg[c.p[1]].tgs[c.p[2]].targets =
              IF c.op = "add" THEN @ \cup {c.x} ELSE @ \ {c.x},
                      !.tgattr =
              IF c.op = "add" /\ Local(k0, c.x) = {}
              THEN With(@, <<c.p[1], c.p[2], c.x>>, TgTargetDefault)
              ELSE Without(@, {<<c.p[1], c.p[2], c.x>>})]
      [] c.kind = "tg_target_attr" ->
           IF <<c.p[1], c.p[2], c.p[3]>> \in DOMAIN k0.tgattr
           THEN [k0 EXCEPT !.tgattr[<<c.p[1], c.p[2], c.p[3]>>][c.x] = c.y]
           ELSE [k0 EXCEPT !.rel = With(@, CHOOSE x \in Local(k0, c.p[3]) : TRUE, c.y)]
      [] c.kind = "scst_attr" -> [k0 EXCEPT !.scst[c.x] = c.y]
      [] OTHER -> k0

(***************************************************************************)
(* The world a writer runs in: w.k the live tree, w.log the writes issued  *)
(* so far (each with the verdict of the control plane), w.exc whether an   *)
(* SCSTError is propagating, w.warn the number of warnings logged.         *)
(***************************************************************************)
World(k0) == [k |-> k0, log |-> <<>>, exc |-> FALSE, warn |-> 0]

\* SCSTSysfs.write_sysfs: the write is issued; on failure SCSTError is raised
Write(w, c) ==
    IF w.exc THEN w
    ELSE IF Accepts(w.k, c)
         THEN [w EXCEPT !.k = Effect(w.k, c), !.log = Append(@, c @@ [ok |-> TRUE])]
         ELSE [w EXCEPT !.log = Append(@, c @@ [ok |-> FALSE]), !.exc = TRUE]

\* a write outside any try block
TryWriteUncaught(w, c) == Write(w, c)

\* try: write_sysfs(...)  except SCSTError: logger.warning(...) / pass
TryWrite(w, c) ==
    IF w.exc THEN w
    ELSE LET r == Write(w, c)
         IN IF r.exc THEN [r EXCEPT !.exc = FALSE, !.warn = @ + 1] ELSE r

\* try: write_sysfs(...)  except SCSTError: pass
Quiet(w, c) ==
    IF w.exc THEN w ELSE [Write(w, c) EXCEPT !.exc = FALSE]

WriteOk(w, c) == ~w.exc /\ Accepts(w.k, c)

(***************************************************************************)
(* scstadmin/writers/utils.py and scstadmin/writers/device_writer.py       *)
(***************************************************************************)
SKIP == "skip"
UPDATE == "update"
RECREATE == "recreate"

\* attrs_config_differs without removable_attrs: current.get(attr) is None
\* when the attribute was not read
attrs_config_differs(desired, current) ==
    \E a \in DOMAIN desired :
        /\ ~(a \notin DOMAIN current /\ desired[a] = SUCCESS_RESULT)
        /\ (a \notin DOMAIN current \/ current[a] # desired[a])

\* determine_device_action without the scan for [key]-marked creation
\* attributes that the configuration leaves out
determine_device_action_without_key_scan(live, keyed, creation_params, post_creation_attrs) ==
    LET config_attrs_to_check == CREATION_PARAMS \cup DOMAIN post_creation_attrs
        existing_device_attrs == Restrict(live, config_attrs_to_check)
        creation_attrs_differ == attrs_config_differs(creation_params, existing_device_attrs)
        post_attrs_differ == attrs_config_differs(post_creation_attrs, existing_device_attrs)
    IN IF ~creation_attrs_differ /\ ~post_attrs_differ THEN SKIP
       ELSE IF creation_attrs_differ THEN RECREATE
       ELSE UPDATE

\* live: the first line of every readable attribute file of the device,
\* keyed: the attribute files whose content carries the [key] marker
determine_device_action(live, keyed, creation_params, post_creation_attrs) ==
    LET config_attrs_to_check == CREATION_PARAMS \cup DOMAIN post_creation_attrs
        existing_device_attrs == Restrict(live, config_attrs_to_check)
        creation_attrs_differ == attrs_config_differs(creation_params, existing_device_attrs)
        post_attrs_differ == attrs_config_differs(post_creation_attrs, existing_device_attrs)
    IN IF \E a \in CREATION_PARAMS : a \notin DOMAIN creation_params /\ a \in keyed
       THEN RECREATE
       ELSE IF ~creation_attrs_differ /\ ~post_attrs_differ THEN SKIP
       ELSE IF creation_attrs_differ THEN RECREATE
       ELSE UPDATE

device_exists(k0, handler, d) == d \in DOMAIN k0.dev /\ k0.dev[d].handler = handler

AttrSeq == <<"filename", "prod_id", "read_only", "expl_alua">>

set_device_attributes(w, handler, d, attrs) ==
    FoldSeq(LAMBDA v, a : TryWrite(v, Cmd("device_attr", <<handler, d>>, "set", a, attrs[a], Empty)),
            w, Ordered(AttrSeq, DOMAIN attrs))

remove_device(w, handler, d) ==
    TryWrite(w, Cmd("handler_mgmt", <<handler>>, "del_device", d, "", Empty))

\* a creation that logs a refused add_device and goes on
create_device_best_effort(w, handler, d, creation_params, post_creation_attrs) ==
    set_device_attributes(
        TryWrite(w, Cmd("handler_mgmt", <<handler>>, "add_device", d, "", creation_params)),
        handler, d, post_creation_attrs)

create_device(w, handler, d, creation_params, post_creation_attrs) ==
    set_device_attributes(
        Write(w, Cmd("handler_mgmt", <<handler>>, "add_device", d, "", creation_params)),
        handler, d, post_creation_attrs)

LiveKeyed(k0, d) == {a \in CREATION_PARAMS : HasKey(k0, d, a)}

\* apply_config_devices without the SKIP decision: the attributes of an
\* unchanged device are written again
apply_config_device_no_skip(w, c, d) ==
    LET dc == c.dev[d]
        action == determine_device_action(w.k.dev[d].attrs, LiveKeyed(w.k, d), dc.creation, dc.post)
    IN IF w.exc THEN w
       ELSE IF device_exists(w.k, dc.handler, d)
       THEN IF action \in {SKIP, UPDATE}
            THEN set_device_attributes(w, dc.handler, d, dc.post)
            ELSE create_device(remove_device(w, dc.handler, d),
                               dc.handler, d, dc.creation, dc.post)
       ELSE create_device(w, dc.handler, d, dc.creation, dc.post)

apply_config_device(w, c, d) ==
    LET dc == c.dev[d]
        action == determine_device_action(w.k.dev[d].attrs, LiveKeyed(w.k, d), dc.creation, dc.post)
    IN IF w.exc THEN w
       ELSE IF device_exists(w.k, dc.handler, d)
       THEN CASE action = SKIP -> w
              [] action = UPDATE -> set_device_attributes(w, dc.handler, d, dc.post)
              [] OTHER -> create_device(remove_device(w, dc.handler, d),
                                        dc.handler, d, dc.creation, dc.post)
       ELSE create_device(w, dc.handler, d, dc.creation, dc.post)

apply_config_devices(w, c) ==
    FoldSeq(LAMBDA v, d : apply_config_device(v, c, d), w, Ordered(DevSeq, DOMAIN c.dev))

(***************************************************************************)
(* scstadmin/writers/target_writer.py: targets, LUNs, initiator groups     *)
(***************************************************************************)
TgtAttrSeq == <<"HeaderDigest", "MaxSessions", "enabled">>
\* every target the model knows, drivers and targets in configuration order
AllTgtSeq == <<CM>> \o [i \in 1..Len(TgtSeq) |-> <<"iscsi", TgtSeq[i]>>]

LunCmd(key, op, lun, dv) == Cmd("luns_mgmt", key, op, lun, dv, Empty)
GroupLunCmd(key, g, op, lun, dv) == Cmd("group_luns_mgmt", <<key[1], key[2], g>>, op, lun, dv, Empty)
GroupIniCmd(key, g, op, ini) == Cmd("group_inis_mgmt", <<key[1], key[2], g>>, op, ini, "", Empty)
GroupCmd(key, op, g) == Cmd("groups_mgmt", key, op, g, "", Empty)

_target_exists(k0, key) == key \in DOMAIN k0.tgt
_lun_exists(k0, key, lun) == key \in DOMAIN k0.tgt /\ lun \in DOMAIN k0.tgt[key].luns
_group_exists(k0, key, g) == key \in DOMAIN k0.tgt /\ g \in DOMAIN k0.tgt[key].groups

\* every attribute goes to its sysfs file (none is managed through mgmt)
set_target_attributes(w, key, attributes) ==
    FoldSeq(LAMBDA v, a : TryWrite(v, Cmd("target_attr", key, "set", a, attributes[a], Empty)),
            w, Ordered(TgtAttrSeq, DOMAIN attributes))

\* an update that writes every attribute whose observed value is not the
\* desired one, a missing observed value included
update_target_attributes_no_default(w, key, desired_attrs, current_attrs) ==
    LET upd == {a \in DOMAIN desired_attrs :
                  ~(a \in DOMAIN current_attrs /\ current_attrs[a] = desired_attrs[a])}
    IN IF upd = {} THEN w ELSE set_target_attributes(w, key, Restrict(desired_attrs, upd))

update_target_attributes(w, key, desired_attrs, current_attrs) ==
    LET upd == {a \in DOMAIN desired_attrs :
                  /\ ~(a \in DOMAIN current_attrs /\ current_attrs[a] = desired_attrs[a])
                  /\ ~(a \notin DOMAIN current_attrs /\ desired_attrs[a] = SUCCESS_RESULT)}
    IN IF upd = {} THEN w ELSE set_target_attributes(w, key, Restrict(desired_attrs, upd))

_direct_lun_assignments_differ(k0, key, tc) == k0.tgt[key].luns # tc.luns

\* groups without LUNs are left out on both sides
GroupLunMaps(groups) ==
    [g \in {h \in DOMAIN groups : DOMAIN groups[h].luns # {}} |-> groups[g].luns]

_group_lun_assignments_differ(k0, key, tc) ==
    GroupLunMaps(k0.tgt[key].groups) # GroupLunMaps(tc.groups)

\* compares the initiators and the LUN numbers, not the devices behind them
_group_config_matches(k0, key, g, gc) ==
    /\ _group_exists(k0, key, g)
    /\ k0.tgt[key].groups[g].inis = gc.inis
    /\ DOMAIN k0.tgt[key].groups[g].luns = DOMAIN gc.luns

_group_assignments_differ(k0, key, tc) ==
    \/ DOMAIN k0.tgt[key].groups # DOMAIN tc.groups
    \/ \E g \in DOMAIN tc.groups : ~_group_config_matches(k0, key, g, tc.groups[g])

_update_group_lun_assignments(w, key, g, gc) ==
    LET current_group_luns == w.k.tgt[key].groups[g].luns
        luns_to_remove == DOMAIN current_group_luns \ DOMAIN gc.luns
        removed == FoldSeq(LAMBDA v, l : TryWrite(v, GroupLunCmd(key, g, "del", l, "")),
                           w, Ordered(AutoLunSeq, luns_to_remove))
    IN FoldSeq(LAMBDA v, l : IF Get(current_group_luns, l, "") # gc.luns[l]
                             THEN TryWrite(v, GroupLunCmd(key, g, "add", l, gc.luns[l]))
                             ELSE v,
               removed, Ordered(AutoLunSeq, DOMAIN gc.luns))

_update_group_config(w, key, g, gc) ==
    IF w.exc \/ _group_config_matches(w.k, key, g, gc) THEN w
    ELSE LET existing == w.k.tgt[key].groups[g].inis
             added == FoldSeq(LAMBDA v, i : TryWrite(v, GroupIniCmd(key, g, "add", i)),
                              w, Ordered(IniSeq, gc.inis \ existing))
             deleted == FoldSeq(LAMBDA v, i : TryWrite(v, GroupIniCmd(key, g, "del", i)),
                                added, Ordered(IniSeq, existing \ gc.inis))
         IN _update_group_lun_assignments(deleted, key, g, gc)

\* create the group, add its initiators, add its LUNs; Wr is the way the
\* caller treats a failed write
PopulateGroup(Wr(_, _), w, key, g, gc) ==
    LET created == Quiet(w, GroupCmd(key, "create", g))
        inis == FoldSeq(LAMBDA v, i : Wr(v, GroupIniCmd(key, g, "add", i)),
                        created, Ordered(IniSeq, gc.inis))
    IN FoldSeq(LAMBDA v, l : Wr(v, GroupLunCmd(key, g, "add", l, gc.luns[l])),
               inis, Ordered(AutoLunSeq, DOMAIN gc.luns))

_update_target_groups(w, key, tc) ==
    FoldSeq(LAMBDA v, g :
              IF v.exc THEN v
              ELSE IF _group_exists(v.k, key, g)
              THEN _update_group_config(v, key, g, tc.groups[g])
              ELSE PopulateGroup(TryWrite, v, key, g, tc.groups[g]),
            w, Ordered(GrpSeq, DOMAIN tc.groups))

apply_group_assignments(w, key, tc) ==
    FoldSeq(LAMBDA v, g :
              IF v.exc \/ _group_config_matches(v.k, key, g, tc.groups[g]) THEN v
              ELSE PopulateGroup(Quiet, v, key, g, tc.groups[g]),
            w, Ordered(GrpSeq, DOMAIN tc.groups))

\* {device: lun} as the loop over os.listdir builds it: a later LUN overwrites
Inverse(luns) ==
    FoldSeq(LAMBDA m, l : With(m, luns[l], l), Empty, Ordered(AutoLunSeq, DOMAIN luns))

\* one iteration of the loop of apply_lun_assignments; st.elm and st.cld are
\* existing_lun_map and current_lun_devices, filled for copy_manager_tgt only
LunStep(st, key, lun, dv) ==
    LET existing_lun == Get(st.elm, dv, "")
        move == key = CM /\ existing_lun # "" /\ existing_lun # lun
        delOld == LunCmd(key, "del", existing_lun, "")
        a == IF ~move THEN st
             ELSE IF WriteOk(st.w, delOld)
             THEN [w |-> TryWrite(st.w, delOld),
                   elm |-> Without(st.elm, {dv}),
                   cld |-> Without(st.cld, {existing_lun})]
             ELSE [st EXCEPT !.w = TryWrite(st.w, delOld)]
        current_device == IF key = CM THEN Get(a.cld, lun, "") ELSE a.w.k.tgt[key].luns[lun]
        add == LunCmd(key, "add", lun, dv)
    IN IF st.w.exc THEN st
       ELSE IF _lun_exists(a.w.k, key, lun)
       THEN IF current_device = dv THEN a
            ELSE [a EXCEPT !.w = Write(TryWrite(a.w, LunCmd(key, "del", lun, "")), add)]
       ELSE [a EXCEPT !.w = Write(a.w, add)]

apply_lun_assignments(w, key, tc) ==
    IF w.exc THEN w
    ELSE LET live == IF key = CM THEN w.k.tgt[key].luns ELSE Empty
             st0 == [w |-> w, elm |-> Inverse(live), cld |-> live]
         IN FoldSeq(LAMBDA st, l : LunStep(st, key, l, tc.luns[l]),
                    st0, Ordered(AutoLunSeq, DOMAIN tc.luns)).w

apply_config_target(w, c, key) ==
    LET tc == c.tgt[key]
        existing_target_attrs == Restrict(w.k.tgt[key].attrs, DOMAIN tc.attrs)
        attrs_differ == attrs_config_differs(tc.attrs, existing_target_attrs)
        w1 == IF attrs_differ
              THEN update_target_attributes(w, key, tc.attrs, existing_target_attrs)
              ELSE w
        \* the three checks read the tree after the attribute update, before
        \* any assignment is changed
        direct_luns_differ == _direct_lun_assignments_differ(w1.k, key, tc)
        group_luns_differ == _group_lun_assignments_differ(w1.k, key, tc)
        groups_differ == _group_assignments_differ(w1.k, key, tc)
        w2 == IF direct_luns_differ THEN apply_lun_assignments(w1, key, tc) ELSE w1
        created == Write(w, Cmd("driver_mgmt", <<key[1]>>, "add_target", key[2], "", Empty))
        attrd == IF DOMAIN tc.attrs # {} THEN set_target_attributes(created, key, tc.attrs)
                 ELSE created
    IN IF w.exc THEN w
       ELSE IF _target_exists(w.k, key)
       THEN IF group_luns_differ \/ groups_differ THEN _update_target_groups(w2, key, tc) ELSE w2
       ELSE apply_group_assignments(apply_lun_assignments(attrd, key, tc), key, tc)

apply_config_assignments(w, c) ==
    FoldSeq(LAMBDA v, key : apply_config_target(v, c, key), w, Ordered(AllTgtSeq, DOMAIN c.tgt))

cleanup_copy_manager_duplicates(w, c) ==
    LET explicit_luns == IF CM \in DOMAIN c.tgt THEN c.tgt[CM].luns ELSE Empty
        explicit_devices == Inverse(explicit_luns)
        live == w.k.tgt[CM].luns
        luns_to_remove == {l \in DOMAIN live :
                             \/ live[l] \notin DOMAIN explicit_devices
                             \/ explicit_devices[live[l]] # l}
    IN IF w.exc \/ DOMAIN explicit_luns = {} \/ CM \notin DOMAIN w.k.tgt THEN w
       ELSE FoldSeq(LAMBDA v, l : TryWrite(v, LunCmd(CM, "del", l, "")),
                    w, Ordered(AutoLunSeq, luns_to_remove))

apply_config_enable_targets(w, c) ==
    FoldSeq(LAMBDA v, key :
              IF v.exc \/ Get(c.tgt[key].attrs, "enabled", "0") # "1" THEN v
              ELSE IF _target_exists(v.k, key) /\ v.k.tgt[key].attrs["enabled"] = "1" THEN v
              ELSE Quiet(v, Cmd("target_attr", key, "set", "enabled", "1", Empty)),
            w, Ordered(AllTgtSeq, DOMAIN c.tgt))

(***************************************************************************)
(* scstadmin/writers/group_writer.py: device groups and target groups      *)
(***************************************************************************)
DgCmd(op, g) == Cmd("dg_mgmt", <<>>, op, g, "", Empty)
DgDevCmd(g, op, d) == Cmd("dg_devices_mgmt", <<g>>, op, d, "", Empty)
DgTgCmd(g, op, tg) == Cmd("dg_tgroups_mgmt", <<g>>, op, tg, "", Empty)
TgTargetCmd(g, tg, op, t) == Cmd("tg_mgmt", <<g, tg>>, op, t, "", Empty)

_device_group_exists(k0, g) == g \in DOMAIN k0.dg

TgTargetAttrCmd(g, tg, t, a, value) == Cmd("tg_target_attr", <<g, tg, t>>, "set", a, value, Empty)
TgTargetAttrSeq == <<"rel_tgt_id">>

\* TargetGroupConfig.target_attributes, an empty dict when not given
target_attributes(tgc) ==
    IF "target_attributes" \in DOMAIN tgc THEN tgc.target_attributes ELSE Empty

\* membership, then the attributes of the targets that os.path.isdir accepts
_target_group_config_matches(k0, g, tg, tgc) ==
    /\ (IF tg \in DOMAIN k0.dg[g].tgs THEN k0.dg[g].tgs[tg].targets ELSE {}) = tgc.targets
    /\ \A t \in tgc.targets \cap DOMAIN target_attributes(tgc) :
          IsDir(k0, g, tg, t) =>
             \A a \in DOMAIN target_attributes(tgc)[t] :
                /\ a \in TgTargetAttrNames
                /\ ReadTgTargetAttr(k0, g, tg, t, a) = target_attributes(tgc)[t][a]

_device_group_config_matches(k0, g, gc) ==
    /\ k0.dg[g].devices = gc.devices
    /\ DOMAIN k0.dg[g].tgs = DOMAIN gc.tgs
    /\ \A tg \in DOMAIN gc.tgs : _target_group_config_matches(k0, g, tg, gc.tgs[tg])

\* a synchronisation that empties the device list and fills it again
_replace_device_group_devices(w, g, gc) ==
    LET current_devices == w.k.dg[g].devices
        removed == FoldSeq(LAMBDA v, d : TryWrite(v, DgDevCmd(g, "del", d)),
                           w, Ordered(DevSeq, current_devices))
    IN FoldSeq(LAMBDA v, d : TryWrite(v, DgDevCmd(g, "add", d)),
               removed, Ordered(DevSeq, gc.devices))

_update_device_group_devices(w, g, gc) ==
    LET current_devices == w.k.dg[g].devices
        removed == FoldSeq(LAMBDA v, d : TryWrite(v, DgDevCmd(g, "del", d)),
                           w, Ordered(DevSeq, current_devices \ gc.devices))
    IN FoldSeq(LAMBDA v, d : TryWrite(v, DgDevCmd(g, "add", d)),
               removed, Ordered(DevSeq, gc.devices \ current_devices))

\* os.path.isdir(target_path) decides whether the attributes are written; a
\* value that is already there is skipped, a failed write is a warning
_set_target_group_target_attributes(w, g, tg, t, target_config) ==
    IF w.exc \/ ~IsDir(w.k, g, tg, t) THEN w
    ELSE FoldSeq(LAMBDA v, a :
                   IF a \notin DOMAIN target_config THEN v
                   ELSE IF /\ IsDir(v.k, g, tg, t) /\ a \in TgTargetAttrNames
                           /\ ReadTgTargetAttr(v.k, g, tg, t, a) = target_config[a]
                        THEN v
                        ELSE TryWrite(v, TgTargetAttrCmd(g, tg, t, a, target_config[a])),
                 w, TgTargetAttrSeq)

\* a synchronisation that writes the attributes before the membership
_update_target_group_targets_attrs_first(w, g, tg, tgc) ==
    LET current_targets == IF g \in DOMAIN w.k.dg /\ tg \in DOMAIN w.k.dg[g].tgs
                           THEN w.k.dg[g].tgs[tg].targets ELSE {}
        written == FoldSeq(LAMBDA v, t :
                             TryWrite(v, TgTargetAttrCmd(g, tg, t, "rel_tgt_id",
                                                         target_attributes(tgc)[t]["rel_tgt_id"])),
                           w, Ordered(TgtSeq, tgc.targets \cap DOMAIN target_attributes(tgc)))
        added == FoldSeq(LAMBDA v, t : TryWrite(v, TgTargetCmd(g, tg, "add", t)),
                         written, Ordered(TgtSeq, tgc.targets \ current_targets))
    IN FoldSeq(LAMBDA v, t : TryWrite(v, TgTargetCmd(g, tg, "del", t)),
               added, Ordered(TgtSeq, current_targets \ tgc.targets))

_update_target_group_targets(w, g, tg, tgc) ==
    LET current_targets == IF g \in DOMAIN w.k.dg /\ tg \in DOMAIN w.k.dg[g].tgs
                           THEN w.k.dg[g].tgs[tg].targets ELSE {}
        added == FoldSeq(LAMBDA v, t : TryWrite(v, TgTargetCmd(g, tg, "add", t)),
                         w, Ordered(TgtSeq, tgc.targets \ current_targets))
        removed == FoldSeq(LAMBDA v, t : TryWrite(v, TgTargetCmd(g, tg, "del", t)),
                           added, Ordered(TgtSeq, current_targets \ tgc.targets))
    IN FoldSeq(LAMBDA v, t :
                 _set_target_group_target_attributes(v, g, tg, t, target_attributes(tgc)[t]),
               removed, Ordered(TgtSeq, tgc.targets \cap DOMAIN target_attributes(tgc)))

\* target groups of the model carry no attribute of their own
_update_target_group_attributes(w, g, tg, tgc) == _update_target_group_targets(w, g, tg, tgc)

\* the writes are inside one try block: the first failure ends the creation
\* with a warning
_create_target_group(w, g, tg, tgc) ==
    LET created == Write(w, DgTgCmd(g, "add", tg))
        filled == FoldSeq(LAMBDA v, t :
                            LET joined == Write(v, TgTargetCmd(g, tg, "add", t))
                            IN IF t \in DOMAIN target_attributes(tgc)
                                  /\ target_attributes(tgc)[t] # Empty
                               THEN _set_target_group_target_attributes(
                                        joined, g, tg, t, target_attributes(tgc)[t])
                               ELSE joined,
                          created, Ordered(TgtSeq, tgc.targets))
        r == _update_target_group_attributes(filled, g, tg, tgc)
    IN IF w.exc THEN w
       ELSE IF r.exc THEN [r EXCEPT !.exc = FALSE, !.warn = @ + 1] ELSE r

_update_device_group_target_groups(w, g, gc) ==
    LET current_target_groups == DOMAIN w.k.dg[g].tgs
        removed == FoldSeq(LAMBDA v, tg : TryWrite(v, DgTgCmd(g, "del", tg)),
                           w, Ordered(TgSeq, current_target_groups \ DOMAIN gc.tgs))
        added == FoldSeq(LAMBDA v, tg : _create_target_group(v, g, tg, gc.tgs[tg]),
                         removed, Ordered(TgSeq, DOMAIN gc.tgs \ current_target_groups))
    IN FoldSeq(LAMBDA v, tg : _update_target_group_attributes(v, g, tg, gc.tgs[tg]),
               added, Ordered(TgSeq, DOMAIN gc.tgs \cap current_target_groups))

_update_device_group(w, g, gc) ==
    _update_device_group_target_groups(_update_device_group_devices(w, g, gc), g, gc)

_apply_target_groups(w, g, target_groups) ==
    FoldSeq(LAMBDA v, tg :
              IF tg \in DOMAIN v.k.dg[g].tgs
              THEN _update_target_group_attributes(
                       _update_target_group_targets(v, g, tg, target_groups[tg]),
                       g, tg, target_groups[tg])
              ELSE _create_target_group(v, g, tg, target_groups[tg]),
            w, Ordered(TgSeq, DOMAIN target_groups))

apply_config_device_group(w, c, g) ==
    LET gc == c.dg[g]
        create == DgCmd("create", g)
        devs == FoldSeq(LAMBDA v, d : TryWrite(v, DgDevCmd(g, "add", d)),
                        Write(w, create), Ordered(DevSeq, gc.devices))
    IN IF w.exc THEN w
       ELSE IF _device_group_exists(w.k, g)
       THEN IF _device_group_config_matches(w.k, g, gc) THEN w
            ELSE _update_device_group(w, g, gc)
       ELSE IF ~WriteOk(w, create) THEN TryWrite(w, create)
       ELSE _apply_target_groups(devs, g, gc.tgs)

apply_config_device_groups(w, c) ==
    FoldSeq(LAMBDA v, g : apply_config_device_group(v, c, g), w, Ordered(DgSeq, DOMAIN c.dg))

\* one try block around all the writes: the first failure ends the removal
remove_device_group(w, g) ==
    LET tgs == FoldSeq(LAMBDA v, tg : Write(v, DgTgCmd(g, "del", tg)),
                       w, Ordered(TgSeq, IF g \in DOMAIN w.k.dg THEN DOMAIN w.k.dg[g].tgs ELSE {}))
        devs == FoldSeq(LAMBDA v, d : Write(v, DgDevCmd(g, "del", d)),
                        tgs, Ordered(DevSeq, IF g \in DOMAIN w.k.dg THEN w.k.dg[g].devices ELSE {}))
        r == Write(devs, DgCmd("del", g))
    IN IF w.exc THEN w
       ELSE IF r.exc THEN [r EXCEPT !.exc = FALSE, !.warn = @ + 1] ELSE r

(***************************************************************************)
(* Removal: target_writer.remove_target and friends, the discovery of      *)
(* scstadmin/readers and SCSTAdmin._remove_conflicting_config              *)
(***************************************************************************)
\* warning of an enclosing  try: ... except SCSTError: logger.warning(...)
\* a removal whose SCSTError leaves remove_target
Uncaught(w, r) == IF w.exc THEN w ELSE r

\* try: ... except SCSTError as e: logger.warning(...)
Caught(w, r) ==
    IF w.exc THEN w
    ELSE IF r.exc THEN [r EXCEPT !.exc = FALSE, !.warn = @ + 1] ELSE r

_disable_target_if_possible(w, key) ==
    IF w.exc \/ ~_target_exists(w.k, key) THEN w
    ELSE Quiet(w, Cmd("target_attr", key, "set", "enabled", "0", Empty))

\* the first half of _force_close_target_sessions: ask every session to close
ForceCloseWrites(w, key) ==
    FoldSeq(LAMBDA v, s : TryWrite(v, Cmd("force_close", <<key[1], key[2], s>>, "set", "", "1", Empty)),
            w, Ordered(SessSeq, IF _target_exists(w.k, key) THEN w.k.tgt[key].sessions ELSE {}))

\* the tree when the wait loop is over: a session that honours force_close
\* is gone, a stuck one is still listed
AfterWait(w, key) ==
    IF w.exc \/ ~_target_exists(w.k, key) THEN w
    ELSE [w EXCEPT !.k.tgt[key].sessions = @ \cap w.k.tgt[key].stuck]

\* a wait that ends with a session left raises instead of warning
TimedOutRaising(w, remaining) ==
    IF w.exc \/ remaining = {} THEN w ELSE [w EXCEPT !.exc = TRUE]

\* "Sessions ... did not close within ... seconds" and "Some sessions
\* remained active": the two warnings of a wait that timed out
TimedOut(w, remaining) ==
    IF w.exc \/ remaining = {} THEN w ELSE [w EXCEPT !.warn = @ + 2]

ClearLuns(w, key) ==
    IF w.exc \/ ~_target_exists(w.k, key) THEN w ELSE Write(w, LunCmd(key, "clear", "", ""))

\* a removal that deletes each group before it clears the group's LUNs
RemoveGroupsDelFirst(w, key) ==
    FoldSeq(LAMBDA v, g : Write(Write(v, GroupCmd(key, "del", g)), GroupLunCmd(key, g, "clear", "", "")),
            w, Ordered(GrpSeq, IF _target_exists(w.k, key) THEN DOMAIN w.k.tgt[key].groups ELSE {}))

RemoveGroups(w, key) ==
    FoldSeq(LAMBDA v, g : Write(Write(v, GroupLunCmd(key, g, "clear", "", "")), GroupCmd(key, "del", g)),
            w, Ordered(GrpSeq, IF _target_exists(w.k, key) THEN DOMAIN w.k.tgt[key].groups ELSE {}))

DelTarget(w, key) == Write(w, Cmd("driver_mgmt", <<key[1]>>, "del_target", key[2], "", Empty))

remove_target(w, key) ==
    LET waited == AfterWait(ForceCloseWrites(_disable_target_if_possible(w, key), key), key)
        remaining == IF _target_exists(waited.k, key) THEN waited.k.tgt[key].sessions ELSE {}
    IN Caught(w, DelTarget(RemoveGroups(ClearLuns(TimedOut(waited, remaining), key), key), key))

_remove_obsolete_luns(w, key, current_target, new_target) ==
    Caught(w, FoldSeq(LAMBDA v, l : Write(v, LunCmd(key, "del", l, "")),
                      w, Ordered(AutoLunSeq, DOMAIN current_target.luns \ DOMAIN new_target.luns)))

_remove_obsolete_groups(w, key, current_target, new_target) ==
    Caught(w, FoldSeq(LAMBDA v, g : Write(Write(v, GroupLunCmd(key, g, "clear", "", "")),
                                          GroupCmd(key, "del", g)),
                      w, Ordered(GrpSeq, DOMAIN current_target.groups \ DOMAIN new_target.groups)))

remove_device_by_name(w, d) ==
    IF w.exc \/ d \notin DOMAIN w.k.dev THEN w
    ELSE TryWrite(w, Cmd("handler_mgmt", <<w.k.dev[d].handler>>, "del_device", d, "", Empty))

\* TargetReader.read_drivers: every target is discovered by name only
ReadTarget == [luns |-> Empty, groups |-> Empty, attrs |-> Empty]

\* ConfigReader.read_current_config; copy_manager_tgt is listed among the
\* attributes of its driver and so is not discovered as a target; of the
\* driver attributes those that show [key] are reported
read_current_config(k0) ==
    [dev |-> DOMAIN k0.dev,
     tgt |-> [key \in DOMAIN k0.tgt \ {CM} |-> ReadTarget],
     dg |-> DOMAIN k0.dg,
     drv |-> [drv \in DOMAIN k0.drv |-> {a \in {"link_local"} : k0.drv[drv][a] # DrvDefault[a]}]]

RemoveTargetsAndLuns(w, current, c) ==
    FoldSeq(LAMBDA v, key :
              IF key \notin DOMAIN c.tgt THEN remove_target(v, key)
              ELSE _remove_obsolete_groups(
                       _remove_obsolete_luns(v, key, current.tgt[key], c.tgt[key]),
                       key, current.tgt[key], c.tgt[key]),
            w, Ordered(AllTgtSeq, {key \in DOMAIN current.tgt : key[1] # "copy_manager"}))

apply_config_enable_drivers(w, c) ==
    FoldSeq(LAMBDA v, drv :
              IF v.exc \/ Get(c.drv[drv], "enabled", "0") # "1" THEN v
              ELSE IF drv \in DOMAIN v.k.drv /\ v.k.drv[drv]["enabled"] = "1" THEN v
              ELSE Quiet(v, Cmd("driver_attr", <<drv>>, "set", "enabled", "1", Empty)),
            w, Ordered(DrvSeq, DOMAIN c.drv))

DrvAttrSeq == <<"enabled", "link_local">>

\* TargetReader._get_driver_attribute_default
_get_driver_attribute_default(drv, a) ==
    IF drv = "iscsi" /\ a = "link_local" THEN "1" ELSE "\n"

_remove_obsolete_driver_attributes(w, current, c) ==
    FoldSeq(LAMBDA v, drv :
              FoldSeq(LAMBDA u, a :
                        IF u.k.drv[drv][a] # _get_driver_attribute_default(drv, a)
                        THEN TryWrite(u, Cmd("driver_attr", <<drv>>, "set", a,
                                             _get_driver_attribute_default(drv, a), Empty))
                        ELSE u,
                      v, Ordered(DrvAttrSeq, current.drv[drv] \ DOMAIN c.drv[drv])),
            w, Ordered(DrvSeq, DOMAIN w.k.drv \cap DOMAIN c.drv))

apply_config_driver_attributes(w, c) ==
    FoldSeq(LAMBDA v, drv :
              FoldSeq(LAMBDA u, a :
                        IF u.k.drv[drv][a] # c.drv[drv][a]
                        THEN TryWrite(u, Cmd("driver_attr", <<drv>>, "set", a, c.drv[drv][a], Empty))
                        ELSE u,
                      v, Ordered(DrvAttrSeq, DOMAIN c.drv[drv] \ {"enabled"})),
            w, Ordered(DrvSeq, DOMAIN w.k.drv \cap DOMAIN c.drv))

_apply_scst_attributes(w, c) ==
    FoldSeq(LAMBDA v, a :
              IF v.exc \/ v.k.scst[a] = c.scst[a] THEN v
              ELSE Quiet(v, Cmd("scst_attr", <<>>, "set", a, c.scst[a], Empty)),
            w, Ordered(<<"setup_id">>, DOMAIN c.scst))

_remove_conflicting_config(w, current, c) ==
    LET dgs == FoldSeq(LAMBDA v, g : remove_device_group(v, g),
                       w, Ordered(DgSeq, current.dg \ DOMAIN c.dg))
    IN FoldSeq(LAMBDA v, d : remove_device_by_name(v, d),
               _remove_obsolete_driver_attributes(RemoveTargetsAndLuns(dgs, current, c), current, c),
               Ordered(DevSeq, current.dev \ DOMAIN c.dev))

(***************************************************************************)
(* Initial live trees and desired configurations.  Each family varies one  *)
(* area of the tree and keeps the rest settled.  A configuration that      *)
(* names the iscsi driver enables it.                                      *)
(***************************************************************************)
PFun(S, T) == UNION {[D -> T] : D \in SUBSET S}
Injective(f) == \A x, y \in DOMAIN f : f[x] = f[y] => x = y

DefaultDev == [handler |-> "vdisk_fileio", attrs |-> DevDefault]
DefaultDevConfig == [handler |-> "vdisk_fileio", creation |-> Empty, post |-> Empty]
\* add_device gave device number i the i-th LUN of copy_manager_tgt
AutoLunsOf(ds) ==
    [l \in {AutoLunSeq[i] : i \in {j \in 1..NumDevs : DevSeq[j] \in ds}} |->
        DevSeq[CHOOSE i \in 1..NumDevs : AutoLunSeq[i] = l]]

CmTarget(luns) == [NewTarget EXCEPT !.luns = luns]
IscsiDrv == [enabled |-> "1", link_local |-> "1"]

BaseK(ds) ==
    [dev |-> [d \in ds |-> DefaultDev],
     tgt |-> [key \in {CM} |-> CmTarget(AutoLunsOf(ds))],
     dg |-> Empty,
     drv |-> [drv \in {"iscsi"} |-> IscsiDrv],
     scst |-> ScstDefault,
     broken |-> {},
     tgattr |-> Empty,
     rel |-> Empty]

BaseCfg(ds) ==
    [dev |-> [d \in ds |-> DefaultDevConfig],
     tgt |-> Empty,
     dg |-> Empty,
     drv |-> [drv \in {"iscsi"} |-> [a \in {"enabled"} |-> "1"]],
     scst |-> Empty]

\* the devices and targets that the scenarios of apply_configuration use
ScenarioDevs == {DevSeq[i] : i \in 1..2}
ScenarioTgts == {TgtSeq[i] : i \in 1..2}

LiveDevs ==
    [handler : Handlers,
     attrs : [filename : {"", "f1", "f2"}, read_only : {"0", "1"}, prod_id : {"dflt", "p1"}]]

DevConfigs ==
    {dc \in [handler : Handlers,
             creation : PFun(CREATION_PARAMS, {"f1", "f2", "0", "1"}),
             post : PFun(POST_ATTRS, {"dflt", "p1"})] :
        /\ "filename" \in DOMAIN dc.creation => dc.creation["filename"] \in {"f1", "f2"}
        /\ "read_only" \in DOMAIN dc.creation => dc.creation["read_only"] \in {"0", "1"}}

Others == ScenarioDevs \ {"d1"}

\* devices: d1 varies on both sides
DeviceScenarios ==
    {[k |-> [BaseK(Others) EXCEPT !.dev = lv @@ @], cfg |-> [BaseCfg(Others) EXCEPT !.dev = dc @@ @]] :
        lv \in PFun({"d1"}, LiveDevs), dc \in PFun({"d1"}, DevConfigs)}

\* explicit LUNs of copy_manager_tgt over an arbitrary live layout
CopyManagerScenarios ==
    {[k |-> [BaseK(ScenarioDevs) EXCEPT !.tgt[CM].luns = lv],
      cfg |-> [BaseCfg(ScenarioDevs) EXCEPT
                 !.tgt = IF DOMAIN ex = {} THEN Empty
                         ELSE [key \in {CM} |-> [attrs |-> Empty, luns |-> ex, groups |-> Empty]],
                 !.drv = IF DOMAIN ex = {} THEN @
                         ELSE [drv \in {"copy_manager"} |-> Empty] @@ @]] :
        lv \in {f \in PFun(AutoLuns, ScenarioDevs) : Injective(f)},
        ex \in {f \in PFun(Luns, ScenarioDevs) : Injective(f)}}

T1 == <<"iscsi", "t1">>
TargetAttrConfigs == {f \in PFun({"enabled", "HeaderDigest"}, {"0", "1", "None", "CRC32C"}) :
                        /\ "enabled" \in DOMAIN f => f["enabled"] \in {"0", "1"}
                        /\ "HeaderDigest" \in DOMAIN f => f["HeaderDigest"] \in {"None", "CRC32C"}}

\* direct LUNs and attributes of one iscsi target, which may be live, desired or both
LunScenarios ==
    {[k |-> [BaseK(ScenarioDevs) EXCEPT !.tgt = lt @@ @], cfg |-> [BaseCfg(ScenarioDevs) EXCEPT !.tgt = ct]] :
        lt \in PFun({T1}, {[NewTarget EXCEPT !.luns = l, !.attrs["enabled"] = e] :
                            l \in PFun(Luns, ScenarioDevs), e \in {"0", "1"}}),
        ct \in PFun({T1}, [attrs : TargetAttrConfigs, luns : PFun(Luns, ScenarioDevs), groups : {Empty}])}

LiveGroups == [inis : {{}, {"i2"}, {"i1", "i2"}}, luns : PFun(Luns, ScenarioDevs)]
GroupConfigs == [inis : {{}, {"i2"}, {"i2", "i3"}}, luns : PFun(Luns, ScenarioDevs)]

\* one initiator group of a live iscsi target
GroupScenarios ==
    {[k |-> [BaseK(ScenarioDevs) EXCEPT !.tgt = [key \in {T1} |-> [NewTarget EXCEPT !.groups = lg]] @@ @],
      cfg |-> [BaseCfg(ScenarioDevs) EXCEPT
                 !.tgt = [key \in {T1} |-> [attrs |-> Empty, luns |-> Empty, groups |-> cg]]]] :
        lg \in PFun({"g1"}, LiveGroups), cg \in PFun({"g1"}, GroupConfigs)}

\* a new target with a second group, and a live target that is not desired
NewTargetScenarios ==
    {[k |-> [BaseK(ScenarioDevs) EXCEPT
               !.tgt = [key \in old |-> [NewTarget EXCEPT !.luns = l, !.groups = lg]] @@ @],
      cfg |-> [BaseCfg(ScenarioDevs) EXCEPT
                 !.tgt = [key \in {T1} |-> [attrs |-> [a \in {"enabled"} |-> "1"],
                                           luns |-> l, groups |-> cg]]]] :
        old \in SUBSET {<<"iscsi", "t2">>},
        l \in PFun(Luns, ScenarioDevs),
        lg \in PFun({"g1", "g2"}, {[inis |-> {"i1"}, luns |-> AutoLunsOf({"d1"})]}),
        cg \in PFun({"g1", "g2"}, {[inis |-> {"i1", "i2"}, luns |-> AutoLunsOf({"d1"})]})}

LiveDgs == [devices : SUBSET ScenarioDevs, tgs : PFun({"tg1"}, [targets : SUBSET ScenarioTgts])]

\* one device group with its devices and one target group
DeviceGroupScenarios ==
    {[k |-> [BaseK(ScenarioDevs) EXCEPT !.dg = lv], cfg |-> [BaseCfg(ScenarioDevs) EXCEPT !.dg = dc]] :
        lv \in PFun({"dg1"}, LiveDgs), dc \in PFun({"dg1"}, LiveDgs)}

\* a second device group and target group, live or desired
SecondGroupScenarios ==
    {[k |-> [BaseK(ScenarioDevs) EXCEPT !.dg = lv], cfg |-> [BaseCfg(ScenarioDevs) EXCEPT !.dg = dc]] :
        lv \in PFun({"dg1", "dg2"}, {[devices |-> {"d1"}, tgs |-> tg] :
                                     tg \in PFun({"tg1", "tg2"}, {[targets |-> {"t1"}]})}),
        dc \in PFun({"dg2"}, {[devices |-> {"d1"}, tgs |-> tg] :
                              tg \in PFun({"tg1", "tg2"}, {[targets |-> {"t2"}]})})}

\* driver attributes and the global attributes
GlobalScenarios ==
    {[k |-> [BaseK(ScenarioDevs) EXCEPT !.drv["iscsi"] = ld, !.scst = ls],
      cfg |-> [BaseCfg(ScenarioDevs) EXCEPT !.drv["iscsi"] = cd @@ @, !.scst = cs]] :
        ld \in [enabled : {"0", "1"}, link_local : {"0", "1"}],
        ls \in [setup_id : {"0", "7"}],
        cd \in PFun({"link_local"}, {"0", "1"}),
        cs \in PFun({"setup_id"}, {"0", "7"})}

\* an empty live tree
FreshScenarios ==
    {[k |-> BaseK({}),
      cfg |-> [BaseCfg({}) EXCEPT
                 !.dev = [d \in ds |-> [DefaultDevConfig EXCEPT !.creation = [a \in {"filename"} |-> "f1"]]],
                 !.tgt = [key \in {T1} |-> [attrs |-> at, luns |-> l, groups |-> Empty]]]] :
        ds \in SUBSET ScenarioDevs \ {{}}, at \in TargetAttrConfigs, l \in PFun(Luns, ScenarioDevs)}

\* the call starts from one scenario of the family S
StartsFrom(S) == \E sc \in S : k = sc.k /\ cfg = sc.cfg /\ tree0 = sc.k

(***************************************************************************)
(* SCSTAdmin.apply_configuration, one action per phase.  `pass` counts the *)
(* calls: the second call applies the same configuration again.            *)
(***************************************************************************)
Idle == [key |-> <<>>, remaining |-> {}, start |-> 0]

Init ==
    /\ \/ StartsFrom(FreshScenarios)
       \/ StartsFrom(DeviceScenarios)
       \/ StartsFrom(CopyManagerScenarios)
       \/ StartsFrom(LunScenarios)
       \/ StartsFrom(GroupScenarios)
       \/ StartsFrom(NewTargetScenarios)
       \/ StartsFrom(DeviceGroupScenarios)
       \/ StartsFrom(SecondGroupScenarios)
       \/ StartsFrom(GlobalScenarios)
    /\ pc = "remove"
    /\ log = <<>>
    /\ raised = FALSE
    /\ warned = 0
    /\ pass = 1
    /\ arg = Idle
    /\ ret = ""
    /\ clock = 0

\* run one phase of the try block; an SCSTError ends the call
Phase(from, to, r) ==
    /\ pc = from
    /\ k' = r.k
    /\ log' = r.log
    /\ warned' = r.warn
    /\ raised' = r.exc
    /\ pc' = IF r.exc THEN "failed" ELSE to
    /\ UNCHANGED <<cfg, pass, arg, ret, clock, tree0>>

Now == [k |-> k, log |-> log, exc |-> FALSE, warn |-> warned]

RemoveConflicting ==
    Phase("remove", "devices", _remove_conflicting_config(Now, read_current_config(k), cfg))

\* the device groups applied ahead of the devices
ApplyDeviceGroupsFirst ==
    Phase("devices", "assignments", apply_config_devices(apply_config_device_groups(Now, cfg), cfg))

ApplyDevices == Phase("devices", "assignments", apply_config_devices(Now, cfg))

ApplyAssignments == Phase("assignments", "cleanup", apply_config_assignments(Now, cfg))

CleanupCopyManager == Phase("cleanup", "device_groups", cleanup_copy_manager_duplicates(Now, cfg))

ApplyDeviceGroups == Phase("device_groups", "enable_targets", apply_config_device_groups(Now, cfg))

EnableTargets == Phase("enable_targets", "enable_drivers", apply_config_enable_targets(Now, cfg))

EnableDrivers == Phase("enable_drivers", "driver_attributes", apply_config_enable_drivers(Now, cfg))

DriverAttributes == Phase("driver_attributes", "scst_attributes", apply_config_driver_attributes(Now, cfg))

ScstAttributes == Phase("scst_attributes", "done", _apply_scst_attributes(Now, cfg))

\* the caller applies the same configuration once more
ApplyAgain ==
    /\ pc = "done"
    /\ pass = 1
    /\ pc' = "remove"
    /\ pass' = 2
    /\ log' = <<>>
    /\ warned' = 0
    /\ UNCHANGED <<k, cfg, raised, arg, ret, clock, tree0>>

Next ==
    \/ RemoveConflicting
    \/ ApplyDevices
    \/ ApplyAssignments
    \/ CleanupCopyManager
    \/ ApplyDeviceGroups
    \/ EnableTargets
    \/ EnableDrivers
    \/ DriverAttributes
    \/ ScstAttributes
    \/ ApplyAgain

Spec == Init /\ [][Next]_vars

(***************************************************************************)
(* Properties of apply_configuration                                       *)
(***************************************************************************)
Returned(n) == pc = "done" /\ pass = n

\* the writes of the log that satisfy P, in the order they were issued
Issued(P(_)) == SelectSeq(log, P)
IsLunOp(e, key, op, lun) == e.kind = "luns_mgmt" /\ e.p = key /\ e.op = op /\ e.x = lun
IsEnable(e, key) == e.kind = "target_attr" /\ e.p = key /\ e.x = "enabled" /\ e.y = "1"

DeviceAsDesired(d) ==
    /\ device_exists(k, cfg.dev[d].handler, d)
    /\ \A a \in DOMAIN cfg.dev[d].creation : k.dev[d].attrs[a] = cfg.dev[d].creation[a]
    /\ \A a \in DOMAIN cfg.dev[d].post : k.dev[d].attrs[a] = cfg.dev[d].post[a]
    /\ \A a \in CREATION_PARAMS \ DOMAIN cfg.dev[d].creation : ~HasKey(k, d, a)

TargetAsDesired(key) ==
    /\ _target_exists(k, key)
    /\ \A a \in DOMAIN cfg.tgt[key].attrs : k.tgt[key].attrs[a] = cfg.tgt[key].attrs[a]
    /\ \A l \in DOMAIN cfg.tgt[key].luns : _lun_exists(k, key, l) /\ k.tgt[key].luns[l] = cfg.tgt[key].luns[l]
    /\ \A g \in DOMAIN cfg.tgt[key].groups :
          /\ _group_exists(k, key, g)
          /\ k.tgt[key].groups[g] = cfg.tgt[key].groups[g]

DeviceGroupAsDesired(g) == g \in DOMAIN k.dg /\ k.dg[g] = cfg.dg[g]

\* what the second call finds when it compares: every device decides SKIP,
\* every target, LUN map, initiator group and device group matches
EveryEntityMatches ==
    /\ \A d \in DOMAIN cfg.dev :
          /\ device_exists(k, cfg.dev[d].handler, d)
          /\ determine_device_action(k.dev[d].attrs, LiveKeyed(k, d),
                                     cfg.dev[d].creation, cfg.dev[d].post) = SKIP
    /\ \A key \in DOMAIN cfg.tgt :
          /\ _target_exists(k, key)
          /\ ~attrs_config_differs(cfg.tgt[key].attrs, Restrict(k.tgt[key].attrs, DOMAIN cfg.tgt[key].attrs))
          /\ ~_direct_lun_assignments_differ(k, key, cfg.tgt[key])
          /\ ~_group_lun_assignments_differ(k, key, cfg.tgt[key])
          /\ ~_group_assignments_differ(k, key, cfg.tgt[key])
    /\ \A g \in DOMAIN cfg.dg :
          _device_group_exists(k, g) /\ _device_group_config_matches(k, g, cfg.dg[g])

\* C1: when apply_configuration(C) has returned and the same C is applied
\* again, the second call issues no write at all, and at its start every
\* device decides SKIP and every target, LUN, initiator group and device
\* group is found matching.
C1_SecondApplyIsNoOp ==
    /\ (pass = 2 /\ pc \in {"done", "failed"}) => log = <<>>
    /\ (pass = 2 /\ pc = "remove") => EveryEntityMatches

\* C2: when apply_configuration(C) has returned without raising, every
\* device, target, direct LUN, initiator group and device group of C is in
\* the live tree with exactly the desired attributes and memberships.
C2_Converged ==
    Returned(1) =>
        /\ \A d \in DOMAIN cfg.dev : DeviceAsDesired(d)
        /\ \A key \in DOMAIN cfg.tgt : TargetAsDesired(key)
        /\ \A g \in DOMAIN cfg.dg : DeviceGroupAsDesired(g)

\* C3: when apply_configuration(C) has returned without raising, every live
\* device, device group, target (other than copy_manager_tgt), direct LUN
\* and initiator group is present in C.
C3_NothingExtra ==
    Returned(1) =>
        /\ DOMAIN k.dev \subseteq DOMAIN cfg.dev
        /\ DOMAIN k.dg \subseteq DOMAIN cfg.dg
        /\ \A key \in DOMAIN k.tgt \ {CM} :
              /\ key \in DOMAIN cfg.tgt
              /\ DOMAIN k.tgt[key].luns \subseteq DOMAIN cfg.tgt[key].luns
              /\ DOMAIN k.tgt[key].groups \subseteq DOMAIN cfg.tgt[key].groups

\* the target is live with LUN 0 -> d1 only, and desired with LUN 1 -> d1 only
C4Case ==
    /\ T1 \in DOMAIN tree0.tgt /\ T1 \in DOMAIN cfg.tgt
    /\ tree0.tgt[T1].luns = [l \in {"0"} |-> "d1"]
    /\ cfg.tgt[T1].luns = [l \in {"1"} |-> "d1"]

\* C4: a target live with LUN 0 -> d1 and desired with only LUN 1 -> d1 gets
\* a removal of LUN 0 and an addition of LUN 1, and ends with LUN 1 -> d1
\* and without LUN 0.
C4_LunRenumbered ==
    (C4Case /\ Returned(1)) =>
        /\ \E i \in 1..Len(log) : IsLunOp(log[i], T1, "del", "0")
        /\ \E i \in 1..Len(log) : IsLunOp(log[i], T1, "add", "1") /\ log[i].y = "d1"
        /\ k.tgt[T1].luns = [l \in {"1"} |-> "d1"]

\* one vdisk_fileio device d1 and one iscsi target with LUN 0 -> d1 and
\* enabled 1, applied to an empty live tree
C5Case ==
    /\ DOMAIN tree0.dev = {} /\ DOMAIN tree0.tgt = {CM}
    /\ DOMAIN cfg.dev = {"d1"} /\ cfg.dev["d1"].handler = "vdisk_fileio"
    /\ cfg.tgt = [key \in {T1} |-> [attrs |-> [a \in {"enabled"} |-> "1"],
                                    luns |-> [l \in {"0"} |-> "d1"],
                                    groups |-> Empty]]

\* C5: for that configuration the writes are, in this order, add_device d1,
\* add_target, add of LUN 0 -> d1 and the write of 1 to enabled; the target
\* is not enabled before its LUN has been added.
C5_EnableAfterLun ==
    (C5Case /\ Returned(1)) =>
        /\ Len(log) = 4
        /\ log[1].kind = "handler_mgmt" /\ log[1].op = "add_device" /\ log[1].x = "d1"
        /\ log[2].kind = "driver_mgmt" /\ log[2].op = "add_target" /\ log[2].x = "t1"
        /\ IsLunOp(log[3], T1, "add", "0") /\ log[3].y = "d1"
        /\ IsEnable(log[4], T1)

IsLunAdd(e) == e.kind \in {"luns_mgmt", "group_luns_mgmt"} /\ e.op = "add"

\* the LUN map a luns/mgmt file of the tree belongs to (empty when the
\* target or group is not there)
LunMapAt(tree, e) ==
    IF <<e.p[1], e.p[2]>> \notin DOMAIN tree.tgt THEN Empty
    ELSE IF e.kind = "luns_mgmt" THEN tree.tgt[<<e.p[1], e.p[2]>>].luns
    ELSE IF e.p[3] \in DOMAIN tree.tgt[<<e.p[1], e.p[2]>>].groups
    THEN tree.tgt[<<e.p[1], e.p[2]>>].groups[e.p[3]].luns
    ELSE Empty

\* C6: every `add <device> <lun>` for a LUN number that the call found
\* mapped to another device is preceded by a `del <lun>` on the same mgmt
\* file, directly under a target as well as inside an initiator group.
C6_DelBeforeAdd ==
    pass = 1 =>
        \A i \in 1..Len(log) :
            (/\ IsLunAdd(log[i])
             /\ log[i].x \in DOMAIN LunMapAt(tree0, log[i])
             /\ LunMapAt(tree0, log[i])[log[i].x] # log[i].y)
            => \E j \in 1..(i - 1) :
                  /\ log[j].kind = log[i].kind /\ log[j].p = log[i].p
                  /\ log[j].op = "del" /\ log[j].x = log[i].x

\* C7: with explicit LUNs for copy_manager_tgt, whatever the live layout
\* was, after apply every explicit device sits at exactly its explicit LUN
\* and no LUN is left for a device outside the explicit list.
C7_ExplicitCopyManagerLuns ==
    (Returned(1) /\ CM \in DOMAIN cfg.tgt) =>
        /\ \A l \in DOMAIN cfg.tgt[CM].luns :
              /\ l \in DOMAIN k.tgt[CM].luns
              /\ k.tgt[CM].luns[l] = cfg.tgt[CM].luns[l]
        /\ \A l \in DOMAIN k.tgt[CM].luns :
              /\ l \in DOMAIN cfg.tgt[CM].luns
              /\ cfg.tgt[CM].luns[l] = k.tgt[CM].luns[l]

(***************************************************************************)
(* DeviceWriter.determine_device_action on its own: the decision for one   *)
(* existing device.  `arg` holds what the function reads: the attribute    *)
(* files of the device that exist (an attribute file may be missing), and  *)
(* the creation and post-creation attributes of the configuration.  The    *)
(* kernel marks an attribute [key] iff its value is not the default.       *)
(***************************************************************************)
AttrValues ==
    [filename |-> {"", "/a", "/b"}, read_only |-> {"0", "1"}, prod_id |-> {"dflt", "x"}]

AttrMaps(names) ==
    UNION {{f \in [D -> UNION {AttrValues[a] : a \in names}] : \A a \in D : f[a] \in AttrValues[a]} :
           D \in SUBSET names}

KeyedOf(live) == {a \in CREATION_PARAMS \cap DOMAIN live : live[a] # DevDefault[a]}

DecideInputs ==
    {[live |-> l, keyed |-> KeyedOf(l), creation |-> c, post |-> p] :
        l \in AttrMaps(DevAttrNames), c \in AttrMaps(CREATION_PARAMS), p \in AttrMaps(POST_ATTRS)}

InitDecide ==
    /\ arg \in DecideInputs
    /\ pc = "decide"
    /\ ret = ""
    /\ k = BaseK({})
    /\ cfg = BaseCfg({})
    /\ tree0 = BaseK({})
    /\ log = <<>>
    /\ raised = FALSE
    /\ warned = 0
    /\ pass = 1
    /\ clock = 0

Decide ==
    /\ pc = "decide"
    /\ ret' = determine_device_action(arg.live, arg.keyed, arg.creation, arg.post)
    /\ pc' = "decided"
    /\ UNCHANGED <<k, log, cfg, raised, warned, pass, arg, clock, tree0>>

NextDecide == Decide

SpecDecide == InitDecide /\ [][NextDecide]_vars

\* a creation attribute of the configuration whose live value is another one;
\* a missing attribute file reads as "0"
CreationAttributeDiffers ==
    \E a \in DOMAIN arg.creation : Get(arg.live, a, SUCCESS_RESULT) # arg.creation[a]
PostAttributeDiffers ==
    \E a \in DOMAIN arg.post : Get(arg.live, a, SUCCESS_RESULT) # arg.post[a]
\* a creation attribute that is set on the live device and absent from the configuration
SetAttributeAbsent == \E a \in arg.keyed : a \notin DOMAIN arg.creation

\* C8: for an existing device determine_device_action returns RECREATE when a
\* creation attribute differs between desired and live or a [key]-marked
\* creation attribute of the live device is absent from desired, UPDATE when
\* no creation attribute does and some post-creation attribute differs, and
\* SKIP otherwise.
C8_DeviceAction ==
    pc = "decided" =>
        ret = IF CreationAttributeDiffers \/ SetAttributeAbsent THEN RECREATE
              ELSE IF PostAttributeDiffers THEN UPDATE
              ELSE SKIP

\* a device whose only reason for recreation is a set attribute the
\* configuration does not name
C8_Witness ==
    /\ pc = "decided"
    /\ ret = RECREATE
    /\ SetAttributeAbsent
    /\ ~CreationAttributeDiffers
    /\ PostAttributeDiffers

(***************************************************************************)
(* Membership synchronisation on its own: one container of a live target   *)
(* or device group whose members differ from the configured ones.  `arg`   *)
(* names the container and keeps the two member sets.  A LUN that is on    *)
(* both sides maps to the same device on both sides.                       *)
(***************************************************************************)
SyncLuns == {AutoLunSeq[i] : i \in 1..3}

SyncK(inis, luns, devices, targets) ==
    [BaseK(Devs) EXCEPT
       !.tgt = [key \in {T1} |-> [NewTarget EXCEPT
                                    !.groups = [g \in {"g1"} |-> [inis |-> inis, luns |-> luns]]]] @@ @,
       !.dg = [g \in {"dg1"} |-> [devices |-> devices,
                                   tgs |-> [tg \in {"tg1"} |-> [targets |-> targets]]]]]

SyncCfg(inis, luns, devices, targets) ==
    [BaseCfg(Devs) EXCEPT
       !.tgt = [key \in {T1} |-> [attrs |-> Empty, luns |-> Empty,
                                  groups |-> [g \in {"g1"} |-> [inis |-> inis, luns |-> luns]]]],
       !.dg = [g \in {"dg1"} |-> [devices |-> devices,
                                   tgs |-> [tg \in {"tg1"} |-> [targets |-> targets]]]]]

SyncScenarios ==
    {[kind |-> "initiators", current |-> c, desired |-> d,
      k |-> SyncK(c, Empty, {}, {}), cfg |-> SyncCfg(d, Empty, {}, {})] :
        c \in SUBSET Inis, d \in SUBSET Inis}
    \cup
    {[kind |-> "luns", current |-> c, desired |-> d,
      k |-> SyncK({"i1"}, Restrict(m, c), {}, {}), cfg |-> SyncCfg({"i1"}, Restrict(m, d), {}, {})] :
        c \in SUBSET SyncLuns, d \in SUBSET SyncLuns, m \in [SyncLuns -> {"d1", "d2"}]}
    \cup
    {[kind |-> "devices", current |-> c, desired |-> d,
      k |-> SyncK({}, Empty, c, {}), cfg |-> SyncCfg({}, Empty, d, {})] :
        c \in SUBSET Devs, d \in SUBSET Devs}
    \cup
    {[kind |-> "targets", current |-> c, desired |-> d,
      k |-> SyncK({}, Empty, {}, c), cfg |-> SyncCfg({}, Empty, {}, d)] :
        c \in SUBSET Tgts, d \in SUBSET Tgts}

InitSync ==
    /\ \E sc \in SyncScenarios :
          /\ arg = [kind |-> sc.kind, current |-> sc.current, desired |-> sc.desired]
          /\ k = sc.k
          /\ cfg = sc.cfg
          /\ tree0 = sc.k
    /\ pc = "sync"
    /\ log = <<>>
    /\ raised = FALSE
    /\ warned = 0
    /\ pass = 1
    /\ ret = ""
    /\ clock = 0

\* the groups of an existing target are brought to the configuration
UpdateTargetGroups ==
    /\ arg.kind \in {"initiators", "luns"}
    /\ Phase("sync", "synced", _update_target_groups(Now, T1, cfg.tgt[T1]))

\* an existing device group is brought to the configuration
ApplyDeviceGroup ==
    /\ arg.kind \in {"devices", "targets"}
    /\ Phase("sync", "synced", apply_config_device_group(Now, cfg, "dg1"))

NextSync == UpdateTargetGroups \/ ApplyDeviceGroup

SpecSync == InitSync /\ [][NextSync]_vars

\* the writes that name member m
Naming(m) == {i \in DOMAIN log : log[i].x = m}
ContainerCommands == {"driver_mgmt", "groups_mgmt", "dg_mgmt", "dg_tgroups_mgmt"}

\* C9: synchronising a container (the initiators or the LUNs of an initiator
\* group, the devices of a device group, the targets of a target group)
\* issues exactly one del for every member that is only current, exactly one
\* add for every member that is only desired, no command that names a member
\* on both sides, and no command that deletes or creates the container; so
\* from {a,b} to {b,c} it issues one `del a`, one `add c`, nothing for b.
C9_MembershipSync ==
    pc = "synced" =>
        /\ \A m \in arg.current \ arg.desired :
              Cardinality(Naming(m)) = 1 /\ \A i \in Naming(m) : log[i].op = "del"
        /\ \A m \in arg.desired \ arg.current :
              Cardinality(Naming(m)) = 1 /\ \A i \in Naming(m) : log[i].op = "add"
        /\ \A m \in arg.current \cap arg.desired : Naming(m) = {}
        /\ \A i \in DOMAIN log : log[i].kind \notin ContainerCommands
        /\ Len(log) = Cardinality(arg.current \ arg.desired) + Cardinality(arg.desired \ arg.current)
        /\ ~raised

\* the devices of a device group went from {a,b} to {b,c}
C9_Witness ==
    /\ pc = "synced"
    /\ arg.kind = "devices"
    /\ Cardinality(arg.current) = 2
    /\ Cardinality(arg.desired) = 2
    /\ Cardinality(arg.current \cap arg.desired) = 1
    /\ Len(log) = 2
    /\ k.dg["dg1"].devices = arg.desired

(***************************************************************************)
(* TargetWriter.remove_target step by step, with the wait loop of          *)
(* _force_close_target_sessions.  arg.remaining is remaining_sessions,     *)
(* arg.start is start_time and `clock` the time in seconds; only           *)
(* time.sleep(1) lets time pass.  A session in `stuck` never leaves the    *)
(* sessions directory, any other session may leave it at any moment.       *)
(* Every session has a force_close file.  SessionTimeout stands for the    *)
(* timeout of 300 seconds.                                                 *)
(***************************************************************************)
SessionTimeout == 2

RemoveScenarios ==
    {[BaseK(Devs) EXCEPT
        !.tgt = [key \in {T1} |-> [NewTarget EXCEPT !.attrs["enabled"] = e, !.luns = l, !.groups = g,
                                                     !.sessions = ss, !.stuck = st]] @@ @] :
        e \in {"0", "1"},
        l \in PFun({"0"}, {"d1"}),
        g \in PFun({"g1", "g2"}, {[inis |-> {"i1"}, luns |-> AutoLunsOf({"d1"})]}),
        ss \in SUBSET Sess,
        st \in SUBSET Sess}

InitRemove ==
    /\ k \in {sc \in RemoveScenarios : sc.tgt[T1].stuck \subseteq sc.tgt[T1].sessions}
    /\ tree0 = k
    /\ cfg = BaseCfg(Devs)
    /\ pc = "rm_disable"
    /\ arg = [Idle EXCEPT !.key = T1]
    /\ log = <<>>
    /\ raised = FALSE
    /\ warned = 0
    /\ pass = 1
    /\ ret = ""
    /\ clock = 0

\* one statement of the try block; the except clause logs a warning and
\* remove_target returns
RemoveStep(from, to, r) ==
    /\ pc = from
    /\ k' = r.k
    /\ log' = r.log
    /\ warned' = IF r.exc THEN r.warn + 1 ELSE r.warn
    /\ pc' = IF r.exc THEN "removed" ELSE to
    /\ UNCHANGED <<cfg, raised, pass, tree0>>

RmDisable ==
    /\ RemoveStep("rm_disable", "rm_sessions", _disable_target_if_possible(Now, arg.key))
    /\ UNCHANGED <<arg, ret, clock>>

\* list the sessions and write force_close of each
RmForceClose ==
    LET r == ForceCloseWrites(Now, arg.key)
        force_closable_sessions ==
            {r.log[i].p[3] : i \in {j \in (Len(log) + 1)..Len(r.log) : r.log[j].ok}}
    IN /\ pc = "rm_sessions"
       /\ IF k.tgt[arg.key].sessions = {}
          THEN /\ RemoveStep("rm_sessions", "rm_luns", Now)
               /\ ret' = "True"
               /\ UNCHANGED <<arg, clock>>
          ELSE IF force_closable_sessions = {}
          THEN /\ RemoveStep("rm_sessions", "rm_luns", [r EXCEPT !.warn = @ + 1])
               /\ ret' = "False"
               /\ UNCHANGED <<arg, clock>>
          ELSE /\ RemoveStep("rm_sessions", "rm_poll", r)
               /\ arg' = [arg EXCEPT !.remaining = force_closable_sessions, !.start = clock]
               /\ UNCHANGED <<ret, clock>>

\* while remaining_sessions and (time.time() - start_time) < timeout
Waiting == arg.remaining # {} /\ clock - arg.start < SessionTimeout

\* one round of the loop: drop the sessions that are gone, sleep if any is left
RmPoll ==
    LET left == arg.remaining \cap k.tgt[arg.key].sessions
    IN /\ pc = "rm_poll"
       /\ Waiting
       /\ arg' = [arg EXCEPT !.remaining = left]
       /\ clock' = IF left # {} THEN clock + 1 ELSE clock
       /\ UNCHANGED <<pc, k, log, cfg, raised, warned, pass, ret, tree0>>

RmWaitOver ==
    /\ pc = "rm_poll"
    /\ ~Waiting
    /\ RemoveStep("rm_poll", "rm_luns", TimedOut(Now, arg.remaining))
    /\ ret' = IF arg.remaining = {} THEN "True" ELSE "False"
    /\ UNCHANGED <<arg, clock>>

RmClearLuns ==
    /\ RemoveStep("rm_luns", "rm_groups", ClearLuns(Now, arg.key))
    /\ UNCHANGED <<arg, ret, clock>>

RmGroups ==
    /\ RemoveStep("rm_groups", "rm_target", RemoveGroups(Now, arg.key))
    /\ UNCHANGED <<arg, ret, clock>>

RmDelTarget ==
    /\ RemoveStep("rm_target", "removed", DelTarget(Now, arg.key))
    /\ UNCHANGED <<arg, ret, clock>>

\* the kernel drops a session that is not stuck
SessionCloses ==
    /\ pc \in {"rm_disable", "rm_sessions", "rm_poll", "rm_luns", "rm_groups", "rm_target"}
    /\ arg.key \in DOMAIN k.tgt
    /\ \E s \in k.tgt[arg.key].sessions \ k.tgt[arg.key].stuck :
          k' = [k EXCEPT !.tgt[arg.key].sessions = @ \ {s}]
    /\ UNCHANGED <<pc, log, cfg, raised, warned, pass, arg, ret, clock, tree0>>

RemoveTarget ==
    \/ RmDisable
    \/ RmForceClose
    \/ RmPoll
    \/ RmWaitOver
    \/ RmClearLuns
    \/ RmGroups
    \/ RmDelTarget

NextRemove == RemoveTarget \/ SessionCloses

\* the process that runs remove_target keeps running
SpecRemove == InitRemove /\ [][NextRemove]_vars /\ WF_vars(RemoveTarget)

\* the wait began with a session that will never disappear
StuckSession == pc = "rm_poll" /\ arg.remaining \cap k.tgt[arg.key].stuck # {}

RemovedWithWarning ==
    /\ pc = "removed"
    /\ ~raised
    /\ warned >= 1
    /\ ret = "False"
    /\ \E i \in DOMAIN log : log[i].kind = "luns_mgmt" /\ log[i].op = "clear"
    /\ \A g \in DOMAIN tree0.tgt[T1].groups :
          \E i \in DOMAIN log : log[i].kind = "groups_mgmt" /\ log[i].op = "del" /\ log[i].x = g
    /\ \E i \in DOMAIN log : log[i].kind = "driver_mgmt" /\ log[i].op = "del_target" /\ log[i].x = T1[2]

\* C10: when a force-closed session never leaves the sessions directory,
\* remove_target waits until the session timeout has elapsed and then
\* clears the LUNs of the target, removes its initiator groups and issues
\* del_target; it logs a warning and does not raise.
C10_StuckSessionRemoval == StuckSession ~> (RemovedWithWarning /\ clock - arg.start >= SessionTimeout)

\* a removal that timed out on a stuck session of a target with groups
C10_Witness ==
    /\ RemovedWithWarning
    /\ tree0.tgt[T1].stuck # {}
    /\ DOMAIN tree0.tgt[T1].groups # {}
    /\ clock - arg.start >= SessionTimeout
    /\ T1 \notin DOMAIN k.tgt

(***************************************************************************)
(* remove_target against a control plane that may refuse one of its        *)
(* writes: the same steps as SpecRemove, started from trees in which one   *)
(* kind of write fails.                                                    *)
(***************************************************************************)
\* the writes remove_target issues, as (file, verb)
RemoveWrites ==
    {<<"target_attr", "set">>, <<"force_close", "set">>, <<"luns_mgmt", "clear">>,
     <<"group_luns_mgmt", "clear">>, <<"groups_mgmt", "del">>, <<"driver_mgmt", "del_target">>}

InitRemoveOrder ==
    /\ \E sc \in RemoveScenarios, b \in {{}} \cup {{x} : x \in RemoveWrites} :
          /\ sc.tgt[T1].stuck \subseteq sc.tgt[T1].sessions
          /\ k = [sc EXCEPT !.broken = b]
    /\ tree0 = k
    /\ cfg = BaseCfg(Devs)
    /\ pc = "rm_disable"
    /\ arg = [Idle EXCEPT !.key = T1]
    /\ log = <<>>
    /\ raised = FALSE
    /\ warned = 0
    /\ pass = 1
    /\ ret = ""
    /\ clock = 0

SpecRemoveOrder == InitRemoveOrder /\ [][NextRemove]_vars

\* the position of a write in the order of remove_target
RemoveStage(c) ==
    CASE c.kind = "target_attr" -> 1
      [] c.kind = "force_close" -> 2
      [] c.kind = "luns_mgmt" -> 3
      [] c.kind \in {"group_luns_mgmt", "groups_mgmt"} -> 4
      [] c.kind = "driver_mgmt" -> 5
      [] OTHER -> 0

IssuedBefore(i, kind, op, x) ==
    \E j \in 1..(i - 1) :
       log[j].kind = kind /\ log[j].op = op /\ log[j].ok /\ (x = "" \/ log[j].x = x \/ log[j].p[Len(log[j].p)] = x)

\* C11: remove_target writes 0 to enabled first (best effort), then
\* force_close to the sessions and waits, then clears the direct LUNs, then
\* for each initiator group clears the group's LUNs right before deleting
\* the group, and issues del_target last; del_target is issued only after
\* the LUN clear and the clear and del of every group of the target.
C11_RemovalOrder ==
    /\ \A i \in DOMAIN log :
          /\ RemoveStage(log[i]) \in 1..5
          /\ i > 1 => RemoveStage(log[i - 1]) <= RemoveStage(log[i])
          /\ i = 1 => log[i] = Cmd("target_attr", T1, "set", "enabled", "0", Empty)
                                 @@ [ok |-> <<"target_attr", "set">> \notin tree0.broken]
          /\ log[i].kind = "luns_mgmt" =>
                /\ log[i].op = "clear"
                /\ arg.remaining = {} \/ clock - arg.start >= SessionTimeout
                /\ \A s \in arg.remaining : IssuedBefore(i, "force_close", "set", s)
          /\ log[i].kind = "groups_mgmt" =>
                /\ log[i].op = "del"
                /\ log[i - 1] = GroupLunCmd(T1, log[i].x, "clear", "", "") @@ [ok |-> TRUE]
          /\ log[i].kind = "driver_mgmt" =>
                /\ i = Len(log)
                /\ log[i].op = "del_target" /\ log[i].x = T1[2]
                /\ IssuedBefore(i, "luns_mgmt", "clear", "")
                /\ \A g \in DOMAIN tree0.tgt[T1].groups :
                      /\ IssuedBefore(i, "group_luns_mgmt", "clear", g)
                      /\ IssuedBefore(i, "groups_mgmt", "del", g)
    /\ pc = "removed" /\ tree0.broken = {} => T1 \notin DOMAIN k.tgt

\* a target with a direct LUN, two groups and an open session was removed
\* with all five kinds of write
C11_Witness ==
    /\ pc = "removed"
    /\ T1 \notin DOMAIN k.tgt
    /\ DOMAIN tree0.tgt[T1].groups = {"g1", "g2"}
    /\ DOMAIN tree0.tgt[T1].luns # {}
    /\ tree0.tgt[T1].sessions # {}
    /\ tree0.broken = {}
    /\ clock > 0
    /\ {RemoveStage(log[i]) : i \in DOMAIN log} = 1..5

(***************************************************************************)
(* SCSTAdmin.suspend_scst_io and resume_scst_io.  `a` pairs the world with *)
(* the suspend_count of the SCSTAdmin instance.  The kernel's own state of *)
(* suspension is not modelled: the writes to the suspend file are logged.  *)
(***************************************************************************)
SuspendCmd(data) == Cmd("suspend", <<>>, "set", "", data, Empty)

\* a resume that decrements whatever the count is
resume_scst_io_unguarded(a) ==
    IF a.w.exc THEN a
    ELSE LET n == a.count - 1
             r == Write(a.w, SuspendCmd("-1"))
         IN IF n = 0
            THEN [w |-> IF r.exc THEN [r EXCEPT !.warn = @ + 1] ELSE r, count |-> n]
            ELSE [a EXCEPT !.count = n]

suspend_scst_io(a, suspend_value) ==
    IF a.w.exc THEN a
    ELSE IF suspend_value <= 0 THEN [a EXCEPT !.w.exc = TRUE]
    ELSE IF a.count = 0
    THEN LET r == Write(a.w, SuspendCmd(ToString(suspend_value)))
         IN IF r.exc THEN [w |-> [r EXCEPT !.warn = @ + 1], count |-> a.count]
            ELSE [w |-> r, count |-> a.count + 1]
    ELSE [a EXCEPT !.count = @ + 1]

resume_scst_io(a) ==
    IF a.w.exc THEN a
    ELSE IF a.count > 0
    THEN LET n == a.count - 1
             r == Write(a.w, SuspendCmd("-1"))
         IN IF n = 0
            THEN [w |-> IF r.exc THEN [r EXCEPT !.warn = @ + 1] ELSE r, count |-> n]
            ELSE [a EXCEPT !.count = n]
    ELSE a

(***************************************************************************)
(* Any sequence of suspend_scst_io and resume_scst_io calls on one         *)
(* instance; the kernel may refuse the write of any call.                  *)
(***************************************************************************)
MaxCalls == 5
SuspendValues == 0..2
SuspendWrites == {<<"suspend", "set">>}

Admin(n) == [suspend_count |-> n, suspend |-> 0, bracket |-> FALSE, op |-> ""]

InitSuspend ==
    /\ k = BaseK({})
    /\ tree0 = k
    /\ cfg = BaseCfg({})
    /\ pc = "idle"
    /\ arg = Admin(0)
    /\ log = <<>>
    /\ raised = FALSE
    /\ warned = 0
    /\ pass = 1
    /\ ret = ""
    /\ clock = 0

\* one call returns or raises
Called(name, r) ==
    /\ pc = "idle"
    /\ pass <= MaxCalls
    /\ pass' = pass + 1
    /\ k' = r.w.k
    /\ log' = r.w.log
    /\ warned' = r.w.warn
    /\ raised' = r.w.exc
    /\ arg' = [arg EXCEPT !.suspend_count = r.count]
    /\ ret' = name
    /\ UNCHANGED <<pc, cfg, clock, tree0>>

\* the world of a call during which the kernel refuses the writes in b
During(b) == [w |-> [Now EXCEPT !.k.broken = b], count |-> arg.suspend_count]

SuspendIO ==
    \E v \in SuspendValues, b \in {{}, SuspendWrites} : Called("suspend", suspend_scst_io(During(b), v))

ResumeIO ==
    \E b \in {{}, SuspendWrites} : Called("resume", resume_scst_io(During(b)))

NextSuspend == SuspendIO \/ ResumeIO

SpecSuspend == InitSuspend /\ [][NextSuspend]_vars

\* the writes of the step
NewWrites == SubSeq(log', Len(log) + 1, Len(log'))

SuspendStep ==
    LET n == arg.suspend_count
        m == arg'.suspend_count
    IN /\ m >= 0
       /\ Len(NewWrites) <= 1
       /\ \A i \in DOMAIN NewWrites :
             /\ NewWrites[i].kind = "suspend"
             /\ IF NewWrites[i].y = "-1"
                THEN ret' = "resume" /\ n = 1 /\ m = 0
                ELSE /\ ret' = "suspend"
                     /\ NewWrites[i].y \in {ToString(v) : v \in SuspendValues \ {0}}
                     /\ n = 0
                     /\ m = IF NewWrites[i].ok THEN 1 ELSE 0
       /\ n = 0 /\ m = 1 => Len(NewWrites) = 1
       /\ n = 1 /\ m = 0 => Len(NewWrites) = 1
       /\ ret' = "resume" /\ n = 0 => NewWrites = <<>> /\ m = 0

\* C13: over any sequence of suspend_scst_io and resume_scst_io calls the
\* suspend_count never becomes negative, the suspend value is written only
\* when the count goes from 0 to 1, the resume value -1 only when it goes
\* from 1 to 0, and resume_scst_io at count 0 writes nothing.
C13_SuspendCount == [][SuspendStep]_vars

\* suspend, suspend, resume: one write, issued by the first call, and the
\* inner resume left the count at 1
C13_Witness ==
    /\ pass = 4
    /\ ret = "resume"
    /\ arg.suspend_count = 1
    /\ Len(log) = 1
    /\ log[1].ok

(***************************************************************************)
(* SCSTAdmin.clear_configuration.  Every write of it is best effort; the   *)
(* mgmt-managed (dynamic) attributes of targets and drivers are not part   *)
(* of the modelled tree, so their removal issues no write.                 *)
(***************************************************************************)
\* SCSTConstants.DRIVER_ATTRIBUTES, with mgmt and enabled added by the scan
DRIVER_ATTRIBUTES ==
    [drv \in {"copy_manager", "iscsi"} |->
        IF drv = "copy_manager"
        THEN {"copy_manager_tgt", "dif_capabilities", "allow_not_connected_copy", "mgmt", "enabled"}
        ELSE {"link_local", "isns_entity_name", "internal_portal", "trace_level", "open_state",
              "version", "iSNSServer", "enabled", "mgmt"}]

clear_configuration(w) ==
    LET drivers == FoldSeq(LAMBDA v, drv :
                             IF "enabled" \in DOMAIN v.k.drv[drv]
                             THEN Quiet(v, Cmd("driver_attr", <<drv>>, "set", "enabled", "0", Empty))
                             ELSE v,
                           w, Ordered(DrvSeq, DOMAIN w.k.drv))
        groups == FoldSeq(LAMBDA v, g : remove_device_group(v, g),
                          drivers, Ordered(DgSeq, DOMAIN drivers.k.dg))
        \* copy_manager_tgt is listed in SCSTConstants.DRIVER_ATTRIBUTES: the
        \* scan of the copy_manager directory skips it as a driver attribute
        \* before the branch that clears its LUNs is reached
        targets == FoldSeq(LAMBDA v, key :
                             IF key[2] \in DRIVER_ATTRIBUTES[key[1]] THEN v
                             ELSE IF key = CM THEN TryWrite(v, LunCmd(key, "clear", "", ""))
                             ELSE remove_target(v, key),
                           groups, Ordered(AllTgtSeq, DOMAIN groups.k.tgt))
    IN FoldSeq(LAMBDA v, d : Quiet(v, Cmd("handler_mgmt", <<v.k.dev[d].handler>>, "del_device", d, "", Empty)),
               targets, Ordered(DevSeq, DOMAIN targets.k.dev))

(***************************************************************************)
(* A configuration that needs every kind of step, applied to a tree that   *)
(* holds part of it or something else, while the control plane refuses     *)
(* none or one kind of write.                                              *)
(***************************************************************************)
FaultCfg ==
    [dev |-> ("d1" :> DefaultDevConfig)
             @@ ("d2" :> [handler |-> "vdisk_fileio", creation |-> [filename |-> "f1"],
                          post |-> [prod_id |-> "p1"]]),
     tgt |-> (T1 :> [attrs |-> [HeaderDigest |-> "CRC32C", enabled |-> "1"],
                     luns |-> ("0" :> "d2"),
                     groups |-> ("g1" :> [inis |-> {"i1"}, luns |-> ("0" :> "d1")])]),
     dg |-> ("dg1" :> [devices |-> {"d2"}, tgs |-> ("tg1" :> [targets |-> {"t1"}])]),
     drv |-> ("iscsi" :> [enabled |-> "1", link_local |-> "0"]),
     scst |-> [setup_id |-> "7"]]

\* a tree with one device of the configuration; a tree that also holds a
\* device, a target and a device group the configuration does not name
FaultTrees ==
    {BaseK({"d1"}),
     [BaseK({"d1", "d3"}) EXCEPT
        !.tgt = (<<"iscsi", "t2">> :> [NewTarget EXCEPT !.luns = ("0" :> "d3"), !.sessions = {"s1"}]) @@ @,
        !.dg = ("dg2" :> [devices |-> {"d3"}, tgs |-> ("tg2" :> [targets |-> {"t2"}])]),
        !.drv["iscsi"]["enabled"] = "0"]}

\* every (file, verb) that apply_configuration and clear_configuration write
ApplyWrites ==
    {<<"handler_mgmt", "add_device">>, <<"handler_mgmt", "del_device">>, <<"device_attr", "set">>,
     <<"driver_mgmt", "add_target">>, <<"driver_mgmt", "del_target">>, <<"target_attr", "set">>,
     <<"luns_mgmt", "add">>, <<"luns_mgmt", "del">>, <<"luns_mgmt", "clear">>,
     <<"groups_mgmt", "create">>, <<"groups_mgmt", "del">>,
     <<"group_luns_mgmt", "add">>, <<"group_inis_mgmt", "add">>,
     <<"dg_mgmt", "create">>, <<"dg_mgmt", "del">>, <<"dg_devices_mgmt", "add">>,
     <<"dg_devices_mgmt", "del">>, <<"dg_tgroups_mgmt", "add">>, <<"dg_tgroups_mgmt", "del">>,
     <<"tg_mgmt", "add">>, <<"driver_attr", "set">>, <<"scst_attr", "set">>, <<"force_close", "set">>}

Faults(writes) == {{}} \cup {{x} : x \in writes}

(***************************************************************************)
(* apply_configuration and clear_configuration called with or without a    *)
(* suspend value, on an instance whose suspend_count is 0 or 1.            *)
(***************************************************************************)
\* finally: only a call that ended without an exception resumes
ResumeAfterSuccess(a, bracket) ==
    IF ~bracket \/ a.w.exc THEN a ELSE resume_scst_io(a)

\* finally: if suspend is not None: self.resume_scst_io(); the exception of
\* the try block, if any, propagates afterwards
ResumeInFinally(a, bracket) ==
    IF ~bracket THEN a
    ELSE LET r == resume_scst_io([a EXCEPT !.w.exc = FALSE])
         IN [r EXCEPT !.w.exc = @ \/ a.w.exc]

InitBracket ==
    /\ \E tree \in FaultTrees, b \in Faults(ApplyWrites \cup SuspendWrites) :
          k = [tree EXCEPT !.broken = b]
    /\ tree0 = k
    /\ cfg = FaultCfg
    /\ pc = "call"
    /\ \E n \in 0..1, v \in SuspendValues, br \in BOOLEAN, op \in {"apply", "clear"} :
          /\ ~br => v = 0
          /\ arg = [Admin(n) EXCEPT !.suspend = v, !.bracket = br, !.op = op]
    /\ log = <<>>
    /\ raised = FALSE
    /\ warned = 0
    /\ pass = 1
    /\ ret = ""
    /\ clock = 0

\* if suspend is not None: self.suspend_scst_io(suspend), before the try
Enter ==
    LET a == IF arg.bracket
             THEN suspend_scst_io([w |-> Now, count |-> arg.suspend_count], arg.suspend)
             ELSE [w |-> Now, count |-> arg.suspend_count]
    IN /\ pc = "call"
       /\ k' = a.w.k
       /\ log' = a.w.log
       /\ warned' = a.w.warn
       /\ raised' = a.w.exc
       /\ arg' = [arg EXCEPT !.suspend_count = a.count]
       /\ pc' = IF a.w.exc THEN "raised" ELSE IF arg.op = "apply" THEN "remove" ELSE "clear"
       /\ ret' = IF arg.bracket /\ ~a.w.exc THEN "suspended" ELSE ret
       /\ UNCHANGED <<cfg, pass, clock, tree0>>

Clear == Phase("clear", "done", clear_configuration(Now))

Finally ==
    LET a == ResumeInFinally([w |-> [Now EXCEPT !.exc = raised], count |-> arg.suspend_count],
                             arg.bracket)
    IN /\ pc \in {"done", "failed"}
       /\ k' = a.w.k
       /\ log' = a.w.log
       /\ warned' = a.w.warn
       /\ raised' = a.w.exc
       /\ arg' = [arg EXCEPT !.suspend_count = a.count]
       /\ pc' = IF a.w.exc THEN "raised" ELSE "returned"
       /\ ret' = IF arg.bracket /\ a.count # arg.suspend_count THEN "resumed" ELSE ret
       /\ UNCHANGED <<cfg, pass, clock, tree0>>

\* the suspend file stops taking writes while the operation runs
SuspendFileBreaks ==
    /\ pc \notin {"call", "returned", "raised"}
    /\ k.broken = {}
    /\ k' = [k EXCEPT !.broken = SuspendWrites]
    /\ UNCHANGED <<pc, log, cfg, raised, warned, pass, arg, ret, clock, tree0>>

NextBracket ==
    \/ Enter
    \/ SuspendFileBreaks
    \/ RemoveConflicting
    \/ ApplyDevices
    \/ ApplyAssignments
    \/ CleanupCopyManager
    \/ ApplyDeviceGroups
    \/ EnableTargets
    \/ EnableDrivers
    \/ DriverAttributes
    \/ ScstAttributes
    \/ Clear
    \/ Finally

SpecBracket == InitBracket /\ [][NextBracket]_vars

Exited == pc \in {"returned", "raised"}

\* C12: when apply_configuration or clear_configuration was called with a
\* suspend value and the suspend succeeded, the call does not return or
\* raise before resume_scst_io has run: the count is back at its value of
\* before the call and, when that value is 0, the last write of the call
\* is the -1 written to the suspend file.
C12_ResumeOnEveryPath ==
    /\ ret = "suspended" => ~Exited /\ arg.suspend_count >= 1
    /\ Exited /\ ret # "" =>
          /\ ret = "resumed"
          /\ IF log[1].kind = "suspend"
             THEN /\ arg.suspend_count = 0
                  /\ log[1].ok /\ log[1].y = ToString(arg.suspend)
                  /\ log[Len(log)].kind = "suspend" /\ log[Len(log)].y = "-1"
             ELSE /\ arg.suspend_count = 1
                  /\ \A i \in DOMAIN log : log[i].kind # "suspend"

\* an apply that suspended, failed in a required step and resumed while
\* the exception was propagating
C12_Witness ==
    /\ pc = "raised"
    /\ arg.op = "apply"
    /\ ret = "resumed"
    /\ Len(log) > 2
    /\ log[1].kind = "suspend" /\ log[1].ok
    /\ ~log[Len(log) - 1].ok
    /\ log[Len(log)] = SuspendCmd("-1") @@ [ok |-> TRUE]

(***************************************************************************)
(* SCSTSysfs.write_sysfs, one write step by step.  The clock counts poll   *)
(* intervals (OPERATION_POLL_INTERVAL, a tenth of a second).  k.res is the *)
(* result register last_sysfs_mgmt_res: "missing" when the file is not     *)
(* there, "pending" when reading it fails because the kernel still works,  *)
(* "0" for success, another value for a failure.                           *)
(***************************************************************************)
DEFAULT_TIMEOUT == 60
PollsPerSecond == 10
WaitTimeout == 3
\* the clock of the model stops here, beyond every timeout
MaxClock == 610
EAGAIN_ERRNO == "EAGAIN"

Registers == {"missing", "pending", SUCCESS_RESULT, "-22"}

\* True, or the SCSTError of a register that is unreadable or not success
_check_operation_result(res) ==
    IF res = "missing" \/ res = SUCCESS_RESULT THEN "True" ELSE "SCSTError"

\* a timeout of 0 taken to mean "no timeout"
PollingWithoutLimit(start, now, timeout) == now - start < timeout \/ timeout = 0

\* while time.time() - start_time < self.timeout
Polling(start, now, timeout) == now - start < timeout

\* an EAGAIN that is reported like any other error of the write
write_failed_at_once(errno, check_result) == "raised"

\* except OSError as e: EAGAIN waits for the result when the write is
\* verified and counts as success when it is not; anything else raises
write_failed(errno, check_result) ==
    IF errno = EAGAIN_ERRNO
    THEN IF check_result THEN "wait" ELSE "returned"
    ELSE "raised"

WriteCalls ==
    [path_ok : BOOLEAN, errno : {"", EAGAIN_ERRNO, "EIO"}, check_result : BOOLEAN,
     timeout : {0, WaitTimeout, DEFAULT_TIMEOUT * PollsPerSecond}, start : {0}]

InitWait ==
    /\ \E res \in Registers : k = [res |-> res] @@ BaseK({})
    /\ tree0 = k
    /\ cfg = BaseCfg({})
    /\ pc = "write"
    /\ arg \in WriteCalls
    /\ log = <<>>
    /\ raised = FALSE
    /\ warned = 0
    /\ pass = 1
    /\ ret = ""
    /\ clock = 0

\* the call ends
WsEnds(how, value) ==
    /\ pc' = how
    /\ ret' = value
    /\ raised' = (how = "raised")
    /\ UNCHANGED <<k, log, cfg, warned, pass, arg, clock, tree0>>

\* the path checks, the write itself and, for a verified write that went
\* through, the check of the result register
WsWrite ==
    /\ pc = "write"
    /\ IF ~arg.path_ok THEN WsEnds("raised", "SCSTError")
       ELSE IF arg.errno = ""
       THEN IF arg.check_result /\ _check_operation_result(k.res) # "True"
            THEN WsEnds("raised", "SCSTError")
            ELSE WsEnds("returned", "True")
       ELSE CASE write_failed(arg.errno, arg.check_result) = "wait" ->
                   /\ pc' = "wait"
                   /\ arg' = [arg EXCEPT !.start = clock]
                   /\ UNCHANGED <<k, log, cfg, raised, warned, pass, ret, clock, tree0>>
              [] write_failed(arg.errno, arg.check_result) = "returned" -> WsEnds("returned", "True")
              [] OTHER -> WsEnds("raised", "SCSTError")

\* one round of _wait_for_completion: return the result, or sleep
WsPoll ==
    /\ pc = "wait"
    /\ clock < MaxClock
    /\ Polling(arg.start, clock, arg.timeout)
    /\ IF _check_operation_result(k.res) = "True"
       THEN WsEnds("returned", "True")
       ELSE /\ clock' = clock + 1
            /\ UNCHANGED <<pc, k, log, cfg, raised, warned, pass, arg, ret, tree0>>

\* raise SCSTError("Operation timed out")
WsTimeOut ==
    /\ pc = "wait"
    /\ ~Polling(arg.start, clock, arg.timeout)
    /\ WsEnds("raised", "Operation timed out")

\* the kernel finishes the operation, fails it or starts another one
RegisterChanges ==
    /\ pc \in {"write", "wait"}
    /\ k.res # "missing"
    /\ \E res \in Registers \ {"missing", k.res} : k' = [k EXCEPT !.res = res]
    /\ UNCHANGED <<pc, log, cfg, raised, warned, pass, arg, ret, clock, tree0>>

WriteSysfs == WsWrite \/ WsPoll \/ WsTimeOut

NextWait == WriteSysfs \/ RegisterChanges

SpecWait == InitWait /\ [][NextWait]_vars

Answered == k.res \in {"missing", SUCCESS_RESULT}

WaitStep ==
    /\ pc = "write" /\ pc' # "write" /\ arg.path_ok /\ arg.errno = EAGAIN_ERRNO /\ arg.check_result =>
          pc' = "wait" /\ arg'.start = clock /\ clock' = clock
    /\ pc = "wait" /\ pc' = "returned" =>
          Answered /\ clock - arg.start < arg.timeout /\ ret' = "True"
    /\ pc = "wait" /\ pc' = "raised" =>
          clock - arg.start >= arg.timeout /\ ret' = "Operation timed out"
    /\ pc = "wait" /\ clock' # clock =>
          ~Answered /\ clock' = clock + 1 /\ clock - arg.start < arg.timeout /\ pc' = "wait"

\* C14: a verified write answered with EAGAIN does not fail at once: it
\* starts polling the result register, sleeps one poll interval after each
\* poll that did not read success, returns success at the first poll that
\* reads success, and raises "Operation timed out" only when the timeout
\* (by default 60 seconds) has elapsed; it never polls after that.
C14_EagainPolling ==
    /\ [][WaitStep]_vars
    /\ [](pc = "wait" => arg.errno = EAGAIN_ERRNO /\ arg.check_result /\ clock - arg.start <= arg.timeout)

\* the default timeout ran out: 600 polls over 60 seconds
C14_Witness ==
    /\ pc = "raised"
    /\ ret = "Operation timed out"
    /\ arg.errno = EAGAIN_ERRNO
    /\ arg.timeout = DEFAULT_TIMEOUT * PollsPerSecond
    /\ clock - arg.start = 600

(***************************************************************************)
(* The two poll loops side by side: a write_sysfs call or a remove_target  *)
(* call, against a control plane that changes the result register, closes  *)
(* and opens sessions and refuses writes as it likes.                      *)
(***************************************************************************)
\* an initiator logs in while the target is being removed
SessionOpens ==
    /\ pc \in {"rm_disable", "rm_sessions", "rm_poll", "rm_luns", "rm_groups", "rm_target"}
    /\ arg.key \in DOMAIN k.tgt
    /\ \E s \in Sess \ k.tgt[arg.key].sessions :
          k' = [k EXCEPT !.tgt[arg.key].sessions = @ \cup {s}]
    /\ UNCHANGED <<pc, log, cfg, raised, warned, pass, arg, ret, clock, tree0>>

InitPoll ==
    \/ InitWait /\ arg.timeout <= WaitTimeout
    \/ /\ InitRemoveOrder
       /\ k.broken \subseteq {<<"force_close", "set">>}
       /\ DOMAIN k.tgt[T1].groups = {"g1"}
       /\ DOMAIN k.tgt[T1].luns # {}
       /\ k.tgt[T1].attrs["enabled"] = "1"

NextPoll == NextWait \/ NextRemove \/ SessionOpens

\* the thread that runs the call is scheduled: sleep returns
SpecPoll == InitPoll /\ [][NextPoll]_vars /\ WF_vars(WriteSysfs \/ RemoveTarget)

RegisterWaitOver ==
    \/ pc = "returned" /\ ret = "True"
    \/ pc = "raised" /\ ret = "Operation timed out" /\ clock - arg.start >= arg.timeout

SessionWaitOver ==
    /\ pc \in {"rm_luns", "rm_groups", "rm_target", "removed"}
    /\ arg.remaining = {} \/ clock - arg.start >= SessionTimeout

\* C15: the poll of the result register after EAGAIN and the poll of the
\* sessions after force_close both end, on success or when the timeout has
\* elapsed, whatever the control plane does in between, and the call that
\* was polling comes to an end.
C15_PollLoopsTerminate ==
    (pc \in {"wait", "rm_poll"}) ~>
        (IF "res" \in DOMAIN k THEN RegisterWaitOver ELSE SessionWaitOver /\ pc = "removed")

\* a wait on the register that ran into the default timeout, or a wait on
\* a stuck session that ran into the session timeout
C15_Witness ==
    \/ /\ pc = "raised" /\ ret = "Operation timed out"
       /\ arg.timeout = WaitTimeout
       /\ clock - arg.start >= arg.timeout
       /\ k.res = "-22"
    \/ /\ pc = "removed"
       /\ arg.remaining # {}
       /\ clock - arg.start >= SessionTimeout

(***************************************************************************)
(* apply_configuration against a control plane that refuses one kind of    *)
(* write; when the call was aborted the fault is repaired and the same     *)
(* configuration is applied again.  tree0 is the tree at the start of the  *)
(* current call.                                                           *)
(***************************************************************************)
InitFault ==
    /\ \E tree \in FaultTrees, b \in Faults(ApplyWrites) : k = [tree EXCEPT !.broken = b]
    /\ tree0 = k
    /\ cfg = FaultCfg
    /\ pc = "remove"
    /\ arg = Idle
    /\ log = <<>>
    /\ raised = FALSE
    /\ warned = 0
    /\ pass = 1
    /\ ret = ""
    /\ clock = 0

\* the operator removes the cause of the failure and calls apply again
ApplyAfterRepair ==
    /\ pc = "failed"
    /\ pass = 1
    /\ k' = [k EXCEPT !.broken = {}]
    /\ tree0' = k'
    /\ pc' = "remove"
    /\ pass' = 2
    /\ log' = <<>>
    /\ raised' = FALSE
    /\ warned' = 0
    /\ ret' = "aborted"
    /\ UNCHANGED <<cfg, arg, clock>>

NextFault ==
    \/ RemoveConflicting
    \/ ApplyDevices
    \/ ApplyAssignments
    \/ CleanupCopyManager
    \/ ApplyDeviceGroups
    \/ EnableTargets
    \/ EnableDrivers
    \/ DriverAttributes
    \/ ScstAttributes
    \/ ApplyAfterRepair

SpecFault == InitFault /\ [][NextFault]_vars

\* the tree that the accepted writes of a log make of k0
Replay(k0, lg) == FoldSeq(LAMBDA kk, c : IF c.ok THEN Effect(kk, c) ELSE kk, k0, lg)

\* sessions come and go without a write
NoSessions(k0) == [k0 EXCEPT !.tgt = [key \in DOMAIN @ |-> [@[key] EXCEPT !.sessions = {}]]]

IsCreate(c, kind, op) == c.kind = kind /\ c.op = op

Aborts(i) == i = Len(log) /\ pc = "failed" /\ raised

NothingUndone == NoSessions(k) = NoSessions(Replay(tree0, log))

CmFaultCfg ==
    [FaultCfg EXCEPT
       !.tgt = (CM :> [attrs |-> Empty, luns |-> ("0" :> "d1"), groups |-> Empty]) @@ @,
       !.drv = ("copy_manager" :> Empty) @@ @]

InitBestEffort ==
    /\ \E tree \in FaultTrees, b \in Faults(ApplyWrites) : k = [tree EXCEPT !.broken = b]
    /\ tree0 = k
    /\ cfg \in {FaultCfg, CmFaultCfg}
    /\ pc = "remove"
    /\ arg = Idle
    /\ log = <<>>
    /\ raised = FALSE
    /\ warned = 0
    /\ pass = 1
    /\ ret = ""
    /\ clock = 0

SpecBestEffort == InitBestEffort /\ [][NextFault]_vars

\* the statements of the try block of apply_configuration, one after the other
apply_try_block(w, c) ==
    LET removed == _remove_conflicting_config(w, read_current_config(w.k), c)
        devices == apply_config_devices(removed, c)
        assigned == apply_config_assignments(devices, c)
        cleaned == cleanup_copy_manager_duplicates(assigned, c)
        grouped == apply_config_device_groups(cleaned, c)
        targets_on == apply_config_enable_targets(grouped, c)
        drivers_on == apply_config_enable_drivers(targets_on, c)
        driver_attrs == apply_config_driver_attributes(drivers_on, c)
    IN _apply_scst_attributes(driver_attrs, c)

IsAttributeWrite(c) ==
    c.op = "set" /\ c.kind \in {"device_attr", "target_attr", "driver_attr", "scst_attr"}

IsDuplicateRemoval(c) == c.kind = "luns_mgmt" /\ c.op = "del" /\ c.p = CM

BestEffort(c) == IsAttributeWrite(c) \/ IsDuplicateRemoval(c)

\* except SCSTError: pass -- the enabled files and the global attributes
Silent(c) ==
    \/ c.kind = "scst_attr"
    \/ c.kind \in {"target_attr", "driver_attr"} /\ c.x = "enabled"

RefusedWrites(P(_)) == {i \in DOMAIN log : ~log[i].ok /\ P(log[i])}

\* the tree after the refused writes of a log are carried out on k0
Forced(k0, lg) == FoldSeq(LAMBDA kk, c : IF c.ok THEN kk ELSE Effect(kk, c), k0, lg)

NeverAbortsApply == \A i \in RefusedWrites(BestEffort) : ~Aborts(i)

\* what the call leaves differs from what it leaves when nothing is refused
\* by the refused writes only
RestIsApplied ==
    (pc = "done" /\ pass = 1 /\ RefusedWrites(LAMBDA c : ~BestEffort(c)) = {}) =>
        Forced([k EXCEPT !.broken = {}], log)
            = apply_try_block(World([tree0 EXCEPT !.broken = {}]), cfg).k

RemapTree ==
    [BaseK({"d1", "d2"}) EXCEPT
       !.dev["d2"].attrs = [filename |-> "f1", read_only |-> "0", prod_id |-> "p1"],
       !.tgt = (T1 :> [NewTarget EXCEPT
                         !.groups = ("g1" :> [inis |-> {"i1"}, luns |-> ("0" :> "d2")])]) @@ @]

InitRetry ==
    /\ \E tree \in FaultTrees \cup {RemapTree}, b \in Faults(ApplyWrites) :
          k = [tree EXCEPT !.broken = b]
    /\ tree0 = k
    /\ cfg = FaultCfg
    /\ pc = "remove"
    /\ arg = Idle
    /\ log = <<>>
    /\ raised = FALSE
    /\ warned = 0
    /\ pass = 1
    /\ ret = ""
    /\ clock = 0

SpecRetry == InitRetry /\ [][NextFault]_vars

\* the call in progress is the one made after an aborted call
Retried == pass = 2 /\ ret = "aborted"

\* C18: the call made after an aborted call and the repair does not raise,
\* and when it has returned every device, target and device group of C is
\* live as desired and nothing that C does not name is left.
C18_RetryConverges ==
    Retried =>
        /\ pc # "failed"
        /\ pc = "done" =>
              /\ \A d \in DOMAIN cfg.dev : DeviceAsDesired(d)
              /\ \A key \in DOMAIN cfg.tgt : TargetAsDesired(key)
              /\ \A g \in DOMAIN cfg.dg : DeviceGroupAsDesired(g)
              /\ DOMAIN k.dev = DOMAIN cfg.dev
              /\ DOMAIN k.tgt \ {CM} = DOMAIN cfg.tgt
              /\ DOMAIN k.dg = DOMAIN cfg.dg

(***************************************************************************)
(* Writes against entities that are already as desired.  An entity is as   *)
(* desired in a tree when the configuration names it and the tree holds    *)
(* it with the desired attributes or members; a write is judged against    *)
(* the tree the call started on and the tree the write was issued on.      *)
(***************************************************************************)
DeviceIs(k0, d) ==
    /\ d \in DOMAIN cfg.dev
    /\ device_exists(k0, cfg.dev[d].handler, d)
    /\ \A a \in DOMAIN cfg.dev[d].creation : k0.dev[d].attrs[a] = cfg.dev[d].creation[a]
    /\ \A a \in DOMAIN cfg.dev[d].post : k0.dev[d].attrs[a] = cfg.dev[d].post[a]
    /\ \A a \in CREATION_PARAMS \ DOMAIN cfg.dev[d].creation : ~HasKey(k0, d, a)

TargetIs(k0, key) ==
    /\ key \in DOMAIN cfg.tgt
    /\ _target_exists(k0, key)
    /\ \A a \in DOMAIN cfg.tgt[key].attrs : k0.tgt[key].attrs[a] = cfg.tgt[key].attrs[a]

LunIs(k0, key, lun) ==
    /\ key \in DOMAIN cfg.tgt
    /\ lun \in DOMAIN cfg.tgt[key].luns
    /\ _lun_exists(k0, key, lun)
    /\ k0.tgt[key].luns[lun] = cfg.tgt[key].luns[lun]

GroupIs(k0, key, g) ==
    /\ key \in DOMAIN cfg.tgt
    /\ g \in DOMAIN cfg.tgt[key].groups
    /\ _group_exists(k0, key, g)
    /\ k0.tgt[key].groups[g] = cfg.tgt[key].groups[g]

DeviceGroupIs(k0, g) ==
    /\ g \in DOMAIN cfg.dg
    /\ _device_group_exists(k0, g)
    /\ k0.dg[g] = cfg.dg[g]

\* the write c goes to an entity that is as desired in k0
Against(k0, c) ==
    CASE c.kind = "handler_mgmt" -> DeviceIs(k0, c.x)
      [] c.kind = "device_attr" -> DeviceIs(k0, c.p[2])
      [] c.kind = "driver_mgmt" -> TargetIs(k0, <<c.p[1], c.x>>)
      [] c.kind = "target_attr" -> TargetIs(k0, TgtKey(c))
      [] c.kind = "luns_mgmt" ->
           IF c.op = "clear"
           THEN \E l \in Luns \cup AutoLuns : LunIs(k0, TgtKey(c), l)
           ELSE LunIs(k0, TgtKey(c), c.x)
      [] c.kind = "groups_mgmt" -> GroupIs(k0, TgtKey(c), c.x)
      [] c.kind \in {"group_luns_mgmt", "group_inis_mgmt"} -> GroupIs(k0, TgtKey(c), c.p[3])
      [] c.kind = "dg_mgmt" -> DeviceGroupIs(k0, c.x)
      [] c.kind \in {"dg_devices_mgmt", "dg_tgroups_mgmt", "tg_mgmt"} -> DeviceGroupIs(k0, c.p[1])
      [] OTHER -> FALSE

\* the writes of a log that went to an entity that was as desired when the
\* call started on k0 and still was when the write was issued
WritesAgainstMatching(k0, lg) ==
    FoldSeq(LAMBDA a, c : [kk |-> IF c.ok THEN Effect(a.kk, c) ELSE a.kk,
                           hits |-> IF Against(k0, c) /\ Against(a.kk, c)
                                    THEN Append(a.hits, c) ELSE a.hits],
            [kk |-> k0, hits |-> <<>>], lg).hits

HANDLER_MODULE_MAP == [h \in Handlers |-> "scst_vdisk"]
DRIVER_MODULE_MAP == [iscsi |-> "iscsi_scst", copy_manager |-> ""]
ISCSI_OPT_MODULES == {"crc32c"}
ISCSI_X86_MODULES == {"crc32c-intel"}
Modules == {"scst", "scst_vdisk", "iscsi_scst"} \cup ISCSI_OPT_MODULES \cup ISCSI_X86_MODULES
Crc32cModules == {"crc32c_intel", "crc32c_generic", "libcrc32c"}

\* config.handlers: the HANDLER blocks, one per handler of a device
determine_required_modules(c, x86) ==
    {"scst"}
    \cup {HANDLER_MODULE_MAP[c.dev[d].handler] : d \in DOMAIN c.dev}
    \cup {DRIVER_MODULE_MAP[drv] : drv \in {x \in DOMAIN c.drv : DRIVER_MODULE_MAP[x] # ""}}
    \cup (IF "iscsi" \in DOMAIN c.drv
          THEN ISCSI_OPT_MODULES \cup (IF x86 THEN ISCSI_X86_MODULES ELSE {})
          ELSE {})

\* module_name.replace('-', '_')
SysfsName(module_name) == IF module_name = "crc32c-intel" THEN "crc32c_intel" ELSE module_name

is_module_loaded(sysmods, module_name) ==
    IF module_name = "crc32c" THEN sysmods \cap Crc32cModules # {}
    ELSE SysfsName(module_name) \in sysmods

Optional(module_name) == module_name \in ISCSI_OPT_MODULES \cup ISCSI_X86_MODULES

\* modprobe returned 0, or the module is optional
load_module(loadable, module_name) == module_name \in loadable \/ Optional(module_name)

\* the directory that a successful modprobe adds to /sys/module
Loaded(module_name) == IF module_name = "crc32c" THEN "crc32c_generic" ELSE SysfsName(module_name)

ensure_required_modules_loaded(sysmods, loadable, c, x86) ==
    LET required_modules == determine_required_modules(c, x86)
        missing == {m \in required_modules : ~is_module_loaded(sysmods, m)}
    IN [sysmods |-> sysmods \cup {Loaded(m) : m \in missing \cap loadable},
        failed_modules |-> {m \in missing : ~load_module(loadable, m) /\ ~Optional(m)}]

SysModules == {"scst", "scst_vdisk", "iscsi_scst", "crc32c_intel", "crc32c_generic"}

InitPhases ==
    /\ k \in FaultTrees
    /\ tree0 = k
    /\ cfg \in {FaultCfg, CmFaultCfg}
    /\ pc = "modules"
    /\ \E found \in SUBSET SysModules :
          arg \in [available : BOOLEAN, x86 : BOOLEAN, sysmods : {found}, found : {found},
                   loadable : {Modules} \cup {Modules \ {m} : m \in Modules}]
    /\ log = <<>>
    /\ raised = FALSE
    /\ warned = 0
    /\ pass = 1
    /\ ret = ""
    /\ clock = 0

\* if not check_scst_available(): raise; ensure_required_modules_loaded(config)
EnsureModules ==
    /\ pc = "modules"
    /\ LET r == ensure_required_modules_loaded(arg.sysmods, arg.loadable, cfg, arg.x86)
       IN IF ~arg.available
          THEN /\ pc' = "failed"
               /\ raised' = TRUE
               /\ ret' = "SCST is not available"
               /\ arg' = arg
          ELSE /\ arg' = [arg EXCEPT !.sysmods = r.sysmods]
               /\ pc' = IF r.failed_modules = {} THEN "remove" ELSE "failed"
               /\ raised' = (r.failed_modules # {})
               /\ ret' = IF r.failed_modules = {} THEN "" ELSE "Failed to load required modules"
    /\ UNCHANGED <<k, log, cfg, warned, pass, clock, tree0>>

NextPhases ==
    \/ EnsureModules
    \/ RemoveConflicting
    \/ ApplyDevices
    \/ ApplyAssignments
    \/ CleanupCopyManager
    \/ ApplyDeviceGroups
    \/ EnableTargets
    \/ EnableDrivers
    \/ DriverAttributes
    \/ ScstAttributes

SpecPhases == InitPhases /\ [][NextPhases]_vars

PhaseOrder ==
    <<"modules", "remove", "devices", "assignments", "cleanup", "device_groups",
      "enable_targets", "enable_drivers", "driver_attributes", "scst_attributes", "done">>

\* the place in PhaseOrder of the phase that alone issues the write c, 0 for
\* a write that more than one phase issues
PhaseOfWrite(c) ==
    CASE c.kind = "force_close" -> 2
      [] c.kind \in {"driver_mgmt", "groups_mgmt", "dg_mgmt"} /\ c.op \in {"del_target", "del"} -> 2
      [] c.kind = "handler_mgmt" /\ c.op = "add_device" -> 3
      [] c.kind = "device_attr" -> 3
      [] c.kind = "driver_mgmt" /\ c.op = "add_target" -> 4
      [] c.kind \in {"luns_mgmt", "group_luns_mgmt", "group_inis_mgmt"} /\ c.op = "add" -> 4
      [] c.kind = "groups_mgmt" /\ c.op = "create" -> 4
      [] c.kind = "dg_mgmt" /\ c.op = "create" -> 6
      [] c.kind \in {"dg_devices_mgmt", "dg_tgroups_mgmt", "tg_mgmt"} /\ c.op = "add" -> 6
      [] c.kind = "driver_attr" /\ c.x = "enabled" -> 8
      [] c.kind = "driver_attr" /\ c.x \in DOMAIN cfg.drv[c.p[1]] -> 9
      [] c.kind = "scst_attr" -> 10
      [] OTHER -> 0

WritesInPhaseOrder ==
    \A i, j \in DOMAIN log :
        (i < j /\ PhaseOfWrite(log[i]) > 0 /\ PhaseOfWrite(log[j]) > 0)
            => PhaseOfWrite(log[i]) <= PhaseOfWrite(log[j])

PhaseStep ==
    pc' # pc =>
        \/ \E i \in 1..(Len(PhaseOrder) - 1) : pc = PhaseOrder[i] /\ pc' = PhaseOrder[i + 1]
        \/ pc' = "failed"

\* C20: apply_configuration goes through ensure kernel modules, remove,
\* devices, targets with LUNs and groups, copy-manager deduplication, device
\* groups, enable targets, enable drivers, driver attributes and global
\* attributes in this order, one after the other; nothing is written before
\* the modules are there, and the writes that belong to one phase only are
\* in the log in the order of the phases.
C20_PhaseOrder ==
    /\ [][PhaseStep]_vars
    /\ [](pc = "modules" => log = <<>>)
    /\ [](log # <<>> =>
             \A m \in determine_required_modules(cfg, arg.x86) :
                 Optional(m) \/ is_module_loaded(arg.sysmods, m))
    /\ []WritesInPhaseOrder

\* the call has loaded a module and returned, with writes of the remove,
\* device, target, device group, driver and global phases in its log
C20_Witness ==
    /\ pc = "done"
    /\ ~is_module_loaded(arg.found, "iscsi_scst")
    /\ is_module_loaded(arg.sysmods, "iscsi_scst")
    /\ \A ph \in {2, 3, 4, 6, 8, 9, 10} : \E i \in DOMAIN log : PhaseOfWrite(log[i]) = ph

(***************************************************************************)
(* Target groups whose targets carry attributes of their own: t1 is a      *)
(* target of the local iscsi driver, kept in the group as a link, t3 is a  *)
(* target of another node, kept as a directory with a rel_tgt_id file.     *)
(***************************************************************************)
TgAttributes ==
    {Empty,
     "t1" :> [rel_tgt_id |-> "5"],
     "t3" :> [rel_tgt_id |-> "7"],
     ("t1" :> [rel_tgt_id |-> "5"]) @@ ("t3" :> [rel_tgt_id |-> "7"])}

TgCfg(attrs) ==
    [FaultCfg EXCEPT !.dg = ("dg1" :> [devices |-> {"d2"},
                                       tgs |-> ("tg1" :> [targets |-> {"t1", "t3"},
                                                          target_attributes |-> attrs])])]

\* nothing configured; the whole configuration live with an empty target
\* group; the same with both targets in the group already
TgTrees ==
    LET live == [BaseK({"d1", "d2"}) EXCEPT
                   !.dev["d2"].attrs = [filename |-> "f1", prod_id |-> "p1"] @@ @,
                   !.tgt = (T1 :> [NewTarget EXCEPT !.luns = ("0" :> "d2")]) @@ @,
                   !.dg = ("dg1" :> [devices |-> {"d2"}, tgs |-> ("tg1" :> NewTg)])]
    IN {BaseK({"d1"}),
        live,
        [live EXCEPT !.dg["dg1"].tgs["tg1"].targets = {"t1", "t3"},
                     !.tgattr = (<<"dg1", "tg1", "t3">> :> TgTargetDefault)]}

TgWrites ==
    {<<"luns_mgmt", "add">>, <<"dg_tgroups_mgmt", "add">>, <<"tg_mgmt", "add">>,
     <<"tg_target_attr", "set">>}

InitTargetGroups ==
    /\ \E tree \in TgTrees, b \in Faults(TgWrites) : k = [tree EXCEPT !.broken = b]
    /\ tree0 = k
    /\ \E attrs \in TgAttributes : cfg = TgCfg(attrs)
    /\ pc = "remove"
    /\ arg = Idle
    /\ log = <<>>
    /\ raised = FALSE
    /\ warned = 0
    /\ pass = 1
    /\ ret = ""
    /\ clock = 0

SpecTargetGroups == InitTargetGroups /\ [][NextFault]_vars

IsTgTargetAttrWrite(c) == c.kind = "tg_target_attr"

\* the attribute writes of a log that went to a target held as a link in its
\* target group when the write was issued
WritesThroughLink(k0, lg) ==
    FoldSeq(LAMBDA a, c : [kk |-> IF c.ok THEN Effect(a.kk, c) ELSE a.kk,
                           hits |-> IF IsTgTargetAttrWrite(c) /\ IsLink(a.kk, c.p[1], c.p[2], c.p[3])
                                    THEN Append(a.hits, c) ELSE a.hits],
            [kk |-> k0, hits |-> <<>>], lg).hits

\* C21: the writer never writes a per-target attribute for a target that is
\* held as a symlink inside a target group; for such a target the attribute
\* step writes nothing and the call goes on.
C21_NoAttributeWriteOnSymlink == pass = 1 => WritesThroughLink(tree0, log) = <<>>

IsTgAdd(c, p, t) == c.kind = "tg_mgmt" /\ c.op = "add" /\ c.p = p /\ c.x = t

InGroup(k0, g, tg, t) ==
    g \in DOMAIN k0.dg /\ tg \in DOMAIN k0.dg[g].tgs /\ t \in k0.dg[g].tgs[tg].targets

\* every attribute write of the log for a target of a target group comes
\* after the add commands of that target, and there is one unless the target
\* was in the group when the call started
AddBeforeAttributes(k0, lg) ==
    \A i \in DOMAIN lg :
       IsTgTargetAttrWrite(lg[i]) =>
          LET p == <<lg[i].p[1], lg[i].p[2]>>
              t == lg[i].p[3]
          IN /\ \A j \in DOMAIN lg : IsTgAdd(lg[j], p, t) => j < i
             /\ \/ InGroup(k0, p[1], p[2], t)
                \/ \E j \in 1..(i - 1) : IsTgAdd(lg[j], p, t)

\* C22: when a target with attributes of its own is put into a target group,
\* the add command for the target is issued before any write of its
\* attributes, for a target group that is created and for one that is updated.
C22_AddBeforeAttributes == AddBeforeAttributes(tree0, log)

\* the log holds "add t3" followed by a write of rel_tgt_id of t3, in a
\* call that found target group tg1 (an update) or that created it
AddThenAttribute(t) ==
    \E j, i \in DOMAIN log :
       /\ j < i
       /\ IsTgAdd(log[j], <<"dg1", "tg1">>, t) /\ log[j].ok
       /\ IsTgTargetAttrWrite(log[i]) /\ log[i].p = <<"dg1", "tg1", t>>

C22_Witness ==
    /\ "dg1" \in DOMAIN tree0.dg /\ "tg1" \in DOMAIN tree0.dg["dg1"].tgs
    /\ AddThenAttribute("t3")

C22_WitnessCreate ==
    /\ "dg1" \notin DOMAIN tree0.dg
    /\ AddThenAttribute("t3")

(***************************************************************************)
(* A live device whose desired handler type differs (DeviceScenarios).     *)
(***************************************************************************)
HandlerChanges(k0, c) ==
    {d \in DOMAIN k0.dev \cap DOMAIN c.dev : k0.dev[d].handler # c.dev[d].handler}

IsDeviceOp(e, handler, op, d) ==
    e.kind = "handler_mgmt" /\ e.p = <<handler>> /\ e.op = op /\ e.x = d

\* the log holds an accepted del_device of d on its old handler followed by
\* an add_device of d on the desired handler
DestroyedAndRecreated(k0, c, lg, d) ==
    \E i, j \in DOMAIN lg :
       /\ i < j
       /\ IsDeviceOp(lg[i], k0.dev[d].handler, "del_device", d) /\ lg[i].ok
       /\ IsDeviceOp(lg[j], c.dev[d].handler, "add_device", d)

\* C23: when the desired configuration gives a live device another handler
\* type, the device phase of apply removes the device from its current
\* handler and then creates it under the desired one.
C23_HandlerChangeRecreates ==
    (pass = 1 /\ pc \notin {"remove", "devices"}) =>
        \A d \in HandlerChanges(tree0, cfg) : DestroyedAndRecreated(tree0, cfg, log, d)

(***************************************************************************)
(* scstadmin/readers/target_reader.py: the introspection of a driver's     *)
(* management file and its cache, over several operations on one instance. *)
(* A line of the help text is its label and the names listed after it.     *)
(***************************************************************************)
MaxOperations == 2

MgmtLabels == {"parameters", "driver attributes", "target attributes", "other"}
MgmtLines == {[label |-> "parameters", names |-> {"allowed_portal"}],
              [label |-> "driver attributes", names |-> {"IncomingUser"}],
              [label |-> "target attributes", names |-> {"IncomingUser", "allowed_portal"}],
              [label |-> "other", names |-> {"mgmt"}]}
MgmtTexts == {<<>>} \cup {<<a>> : a \in MgmtLines} \cup {<<a, b>> : a, b \in MgmtLines}
MgmtFiles == [present : {TRUE}, lines : MgmtTexts] \cup {[present |-> FALSE, lines |-> <<>>]}

\* what a driver's file may become when its module is replaced
ReloadedFiles ==
    {[present |-> FALSE, lines |-> <<>>],
     [present |-> TRUE,
      lines |-> <<[label |-> "driver attributes", names |-> {"IncomingUser"}],
                  [label |-> "target attributes", names |-> {"IncomingUser", "allowed_portal"}]>>]}

NoMgmtInfo == [create_params |-> {}, driver_attributes |-> {}, target_attributes |-> {}]

\* the three label lines fill the three sets; a missing file gives empty sets
_parse_target_mgmt_interface(fs, drv) ==
    IF ~fs[drv].present THEN NoMgmtInfo
    ELSE FoldSeq(LAMBDA r, line :
                   CASE line.label = "parameters" ->
                          [r EXCEPT !.create_params = @ \cup line.names]
                     [] line.label = "driver attributes" ->
                          [r EXCEPT !.driver_attributes = @ \cup line.names]
                     [] line.label = "target attributes" ->
                          [r EXCEPT !.target_attributes = @ \cup line.names]
                     [] OTHER -> r,
                 NoMgmtInfo, fs[drv].lines)

\* the cache after the call: a driver that has an entry keeps it
_get_target_mgmt_info(cache, fs, drv) ==
    IF drv \in DOMAIN cache THEN cache
    ELSE With(cache, drv, _parse_target_mgmt_interface(fs, drv))

IntrospectedDrivers == {"copy_manager", "iscsi"}

\* an instance that has run no operation; the management files hold any text
InitIntrospect ==
    /\ \E fs \in [IntrospectedDrivers -> MgmtFiles] : k = [mgmt |-> fs]
    /\ tree0 = k
    /\ arg = [cache |-> Empty, parsed_in |-> Empty, used |-> <<>>]
    /\ pc = "idle"
    /\ pass = 0
    /\ cfg = Empty
    /\ log = <<>>
    /\ raised = FALSE
    /\ warned = 0
    /\ ret = ""
    /\ clock = 0

\* apply_configuration or clear_configuration is called on the instance
BeginOperation ==
    /\ pc = "idle"
    /\ pass < MaxOperations
    /\ pc' = "running"
    /\ pass' = pass + 1
    /\ arg' = [arg EXCEPT !.used = <<>>]
    /\ UNCHANGED <<k, log, cfg, raised, warned, ret, clock, tree0>>

\* a writer of the running operation asks for the introspection of a driver
GetTargetMgmtInfo ==
    /\ pc = "running"
    /\ \E drv \in IntrospectedDrivers :
          LET cache == _get_target_mgmt_info(arg.cache, k.mgmt, drv)
          IN arg' = [cache |-> cache,
                     parsed_in |-> IF drv \in DOMAIN arg.cache THEN arg.parsed_in
                                   ELSE With(arg.parsed_in, drv, pass),
                     used |-> <<[drv |-> drv, info |-> cache[drv]]>>]
    /\ UNCHANGED <<pc, k, log, cfg, raised, warned, pass, ret, clock, tree0>>

EndOperation ==
    /\ pc = "running"
    /\ pc' = "idle"
    /\ UNCHANGED <<k, log, cfg, raised, warned, pass, arg, ret, clock, tree0>>

\* between two operations a driver module is unloaded, loaded or replaced
DriverReloaded ==
    /\ pc = "idle"
    /\ pass >= 1
    /\ \E drv \in IntrospectedDrivers, f \in ReloadedFiles :
          /\ f # k.mgmt[drv]
          /\ k' = [k EXCEPT !.mgmt[drv] = f]
    /\ UNCHANGED <<pc, log, cfg, raised, warned, pass, arg, ret, clock, tree0>>

NextIntrospect ==
    \/ BeginOperation
    \/ GetTargetMgmtInfo
    \/ EndOperation
    \/ DriverReloaded

SpecIntrospect == InitIntrospect /\ [][NextIntrospect]_vars

\* C24: the introspection result that an operation uses was parsed from the
\* driver's management file during that operation; a result cached during
\* an earlier operation on the instance is not reused.
C24_ParsedDuringOperation ==
    pc = "running" =>
    \A i \in DOMAIN arg.used :
       /\ arg.parsed_in[arg.used[i].drv] = pass
       /\ arg.used[i].info = _parse_target_mgmt_interface(k.mgmt, arg.used[i].drv)

(***************************************************************************)
(* Attributes that the live entity does not show: device d1 has no         *)
(* expl_alua file and target t1 no MaxSessions file, while the desired    *)
(* configuration may name them with the value "0" or with another value.   *)
(***************************************************************************)
SentinelDevConfigs ==
    {[handler |-> "vdisk_fileio", creation |-> c, post |-> p] :
        c \in {Empty, [filename |-> "f1"]},
        p \in {f \in PFun({"expl_alua", "prod_id"}, {"0", "1", "dflt", "p1"}) :
                 /\ "expl_alua" \in DOMAIN f => f["expl_alua"] \in {"0", "1"}
                 /\ "prod_id" \in DOMAIN f => f["prod_id"] \in {"dflt", "p1"}}}

SentinelTgtConfigs ==
    {f \in PFun({"MaxSessions", "HeaderDigest"}, {"0", "1", "None", "CRC32C"}) :
        /\ "MaxSessions" \in DOMAIN f => f["MaxSessions"] \in {"0", "1"}
        /\ "HeaderDigest" \in DOMAIN f => f["HeaderDigest"] \in {"None", "CRC32C"}}

SentinelTree == [BaseK({"d1"}) EXCEPT !.tgt = (T1 :> NewTarget) @@ @]

InitSentinel ==
    /\ k = SentinelTree
    /\ tree0 = k
    /\ \E dc \in SentinelDevConfigs, at \in SentinelTgtConfigs :
          cfg = [BaseCfg({"d1"}) EXCEPT
                   !.dev["d1"] = dc,
                   !.tgt = (T1 :> [attrs |-> at, luns |-> Empty, groups |-> Empty])]
    /\ pc = "remove"
    /\ arg = Idle
    /\ log = <<>>
    /\ raised = FALSE
    /\ warned = 0
    /\ pass = 1
    /\ ret = ""
    /\ clock = 0

SpecSentinel == InitSentinel /\ [][Next]_vars

\* the desired attributes that the observed map lacks and that are wanted "0"
AbsentDefault(desired, current) ==
    {a \in DOMAIN desired : a \notin DOMAIN current /\ desired[a] = SUCCESS_RESULT}

DevAbsentDefault(k0, c, d) ==
    AbsentDefault(c.dev[d].creation @@ c.dev[d].post, k0.dev[d].attrs)
TgtAbsentDefault(k0, c, key) == AbsentDefault(c.tgt[key].attrs, k0.tgt[key].attrs)

\* the decision for device d when the attributes of `out` are left out of
\* the desired configuration
ActionWithout(k0, c, d, out) ==
    determine_device_action(k0.dev[d].attrs, LiveKeyed(k0, d),
                            Restrict(c.dev[d].creation, DOMAIN c.dev[d].creation \ out),
                            Restrict(c.dev[d].post, DOMAIN c.dev[d].post \ out))

IsAttrWrite(e, kind, p, a) == e.kind = kind /\ e.p = p /\ e.x = a

\* the original statement: no write at all goes to such an attribute
C25_NoWriteForDefault ==
    pass = 1 =>
       /\ \A a \in DevAbsentDefault(tree0, cfg, "d1"), i \in DOMAIN log :
             ~IsAttrWrite(log[i], "device_attr", <<"vdisk_fileio", "d1">>, a)
       /\ \A a \in TgtAbsentDefault(tree0, cfg, T1), i \in DOMAIN log :
             ~IsAttrWrite(log[i], "target_attr", T1, a)

\* C25: an attribute that the observed map lacks and whose desired value is
\* "0" counts as matching: the decision for the device is the one taken
\* without it, update_target_attributes issues no write for it, and a
\* device attribute of this kind is written only together with the other
\* post-creation attributes of a device that is updated or recreated.
C25_DefaultMatches ==
    pass = 1 =>
       LET out == DevAbsentDefault(tree0, cfg, "d1")
       IN /\ ActionWithout(tree0, cfg, "d1", {}) = ActionWithout(tree0, cfg, "d1", out)
          /\ \A a \in TgtAbsentDefault(tree0, cfg, T1), i \in DOMAIN log :
                ~IsAttrWrite(log[i], "target_attr", T1, a)
          /\ ActionWithout(tree0, cfg, "d1", out) = SKIP =>
                \A a \in out, i \in DOMAIN log :
                   ~IsAttrWrite(log[i], "device_attr", <<"vdisk_fileio", "d1">>, a)

\* the call has returned; MaxSessions 0 and expl_alua 0 were wanted and not
\* shown, HeaderDigest was written and nothing went to MaxSessions or d1
C25_Witness ==
    /\ Returned(1)
    /\ "MaxSessions" \in TgtAbsentDefault(tree0, cfg, T1)
    /\ "expl_alua" \in DevAbsentDefault(tree0, cfg, "d1")
    /\ \E i \in DOMAIN log : IsAttrWrite(log[i], "target_attr", T1, "HeaderDigest")
    /\ \A i \in DOMAIN log : log[i].kind # "device_attr" /\ log[i].x # "MaxSessions"

(***************************************************************************)
(* scstadmin/parser.py.  A line is the sequence of its whitespace-         *)
(* separated words; "{", "}" and "=" are words of their own, a comment     *)
(* line starts with the word "#" and a blank line has no word.  Indexes    *)
(* into the list of lines count from 0 as in the source.                   *)
(***************************************************************************)
At(lines, i) == lines[i + 1]

\* line.startswith(keyword + ' ') on a stripped line
StartsWith(line, keyword) == Len(line) >= 2 /\ line[1] = keyword
\* line.endswith('{') and line.endswith('}')
EndsWithOpen(line) == Len(line) >= 1 /\ line[Len(line)] = "{"
EndsWithClose(line) == Len(line) >= 1 /\ line[Len(line)] = "}"
\* '=' in line and ' ' in line
HasEquals(line) == \E i \in DOMAIN line : line[i] = "="
HasSpace(line) == Len(line) >= 2

RECURSIVE JoinWords(_)
JoinWords(words) ==
    IF words = <<>> THEN ""
    ELSE IF Len(words) = 1 THEN words[1]
    ELSE words[1] \o " " \o JoinWords(Tail(words))

\* the quoted values of the texts and what is left without the quotes
QuotedValues == ("\"v1\"" :> "v1") @@ ("'v2'" :> "v2")
_strip_quotes(value) == IF value \in DOMAIN QuotedValues THEN QuotedValues[value] ELSE value

\* _add_target_attribute that replaces the value held for the key
_add_target_attribute_overwrite(attributes, key, value) == With(attributes, key, value)

_add_target_attribute(attributes, key, value) ==
    IF key \in DOMAIN attributes
    THEN With(attributes, key, attributes[key] \o ";" \o value)
    ELSE With(attributes, key, value)

\* key and value of an attribute line: split at the first "=", else at the
\* first whitespace
AttributeKey(line) ==
    IF HasEquals(line)
    THEN JoinWords(SubSeq(line, 1, (CHOOSE i \in DOMAIN line :
                                      line[i] = "=" /\ \A j \in 1..(i - 1) : line[j] # "=") - 1))
    ELSE line[1]
AttributeValue(line) ==
    IF HasEquals(line)
    THEN _strip_quotes(JoinWords(SubSeq(line, (CHOOSE i \in DOMAIN line :
                                      line[i] = "=" /\ \A j \in 1..(i - 1) : line[j] # "=") + 1,
                                        Len(line))))
    ELSE _strip_quotes(JoinWords(Tail(line)))

\* the attributes after the line; combine tells whether the caller passed
\* _add_target_attribute as attribute_handler
_parse_single_attribute_line(line, attributes, combine) ==
    IF line = <<>> THEN attributes
    ELSE IF HasEquals(line) \/ HasSpace(line)
    THEN IF combine
         THEN _add_target_attribute(attributes, AttributeKey(line), AttributeValue(line))
         ELSE With(attributes, AttributeKey(line), AttributeValue(line))
    ELSE attributes

RECURSIVE _parse_attributes_in_block(_, _, _, _, _)
_parse_attributes_in_block(lines, start, end, attributes, combine) ==
    IF start >= end THEN attributes
    ELSE _parse_attributes_in_block(
             lines, start + 1, end,
             _parse_single_attribute_line(At(lines, start), attributes, combine), combine)

NoError == [kind |-> "none", block |-> "", line |-> 0, at |-> 0]
\* SCSTError raised for the line at index `at`; the message holds `line`
ParseError(kind, block, line, at) == [kind |-> kind, block |-> block, line |-> line, at |-> at]

\* the scan that counts a line ending with "{" up and one ending with "}" down
RECURSIVE CountBraces(_, _, _)
CountBraces(lines, i, brace_count) ==
    IF i < Len(lines) /\ brace_count > 0
    THEN CountBraces(lines, i + 1,
                     IF EndsWithOpen(At(lines, i)) THEN brace_count + 1
                     ELSE IF EndsWithClose(At(lines, i)) THEN brace_count - 1
                     ELSE brace_count)
    ELSE [i |-> i, brace_count |-> brace_count]

_parse_block_generic(lines, start, block_type) ==
    LET line == At(lines, start)
        block_name == line[2]
        brace_next == start + 1 < Len(lines) /\ At(lines, start + 1) = <<"{">>
        content_start == IF EndsWithOpen(line) THEN start + 1 ELSE start + 2
        scan == CountBraces(lines, content_start, 1)
    IN IF Len(line) < 2
       THEN [name |-> "", content_start |-> 0, content_end |-> 0,
             err |-> ParseError("Malformed", block_type, start + 1, start)]
       ELSE IF ~EndsWithOpen(line) /\ ~brace_next
       THEN [name |-> block_name, content_start |-> start + 1, content_end |-> start + 1,
             err |-> NoError]
       ELSE IF scan.brace_count # 0
       THEN [name |-> block_name, content_start |-> 0, content_end |-> 0,
             err |-> ParseError("Unmatched", block_type, start + 1, start)]
       ELSE [name |-> block_name, content_start |-> content_start, content_end |-> scan.i - 1,
             err |-> NoError]

\* the scan that counts only the lines that are a brace and nothing else
RECURSIVE CountBraceLines(_, _, _)
CountBraceLines(lines, i, brace_count) ==
    IF i < Len(lines) /\ brace_count > 0
    THEN CountBraceLines(lines, i + 1,
                         IF At(lines, i) = <<"{">> THEN brace_count + 1
                         ELSE IF At(lines, i) = <<"}">> THEN brace_count - 1
                         ELSE brace_count)
    ELSE [i |-> i, brace_count |-> brace_count]

\* -1 when no closing brace balances the count
_find_closing_brace(lines, start) ==
    LET scan == CountBraceLines(lines, start, 1)
    IN IF scan.brace_count = 0 THEN scan.i - 1 ELSE -1

\* LunConfig.device of a LUN statement without a device name (None)
NoDevice == "<None>"
HANDLER_TYPES == {"vdisk_fileio", "vdisk_blockio", "dev_disk"}

\* what a block parser returns: the index of the next line to parse, the
\* container it filled, and the SCSTError it raised if any
Parsed(next, val) == [next |-> next, val |-> val, err |-> NoError]
Raised(val, err) == [next |-> 0, val |-> val, err |-> err]

_parse_lun_block(lines, start, luns) ==
    LET line == At(lines, start)
        lun_number == line[2]
        device_name == IF Len(line) > 2 THEN line[3] ELSE NoDevice
        same_line == EndsWithOpen(line)
        next_line == start + 1 < Len(lines) /\ At(lines, start + 1) = <<"{">>
        content_start == IF same_line THEN start + 1 ELSE start + 2
        SubBlock(content_end) ==
            IF content_end = -1
            THEN Raised(luns, ParseError("Unmatched", "LUN",
                                         IF same_line THEN start + 1 ELSE start + 2, start))
            ELSE Parsed(content_end + 1,
                        With(luns, lun_number,
                             [device |-> device_name,
                              attributes |-> _parse_attributes_in_block(
                                                 lines, content_start, content_end,
                                                 Empty, FALSE)]))
    IN IF Len(line) < 2
       THEN Raised(luns, ParseError("Malformed", "LUN", start + 1, start))
       ELSE IF ~same_line /\ ~next_line
       THEN Parsed(start + 1, With(luns, lun_number, [device |-> device_name, attributes |-> Empty]))
       ELSE SubBlock(_find_closing_brace(lines, IF same_line THEN content_start ELSE start + 1))

\* the loop variable i of a block parser is kept in the record of what the
\* loop has parsed so far: a nested parser returns the next index, the
\* container it filled and its error, an attribute line moves to the next line
Nested(st, field, r) == [st EXCEPT ![field] = r.val, !.err = r.err, !.i = r.next]
Attribute(st, field, line, combine) ==
    [st EXCEPT ![field] = _parse_single_attribute_line(line, @, combine), !.i = @ + 1]
Skipped(st) == [st EXCEPT !.i = @ + 1]
\* the result of a block parser from the block's bounds and its parsed contents
Block(container, b, st, val) ==
    IF st.err # NoError THEN Raised(container, st.err) ELSE Parsed(b.content_end + 1, val)

\* the loop over the lines of a GROUP block
RECURSIVE GroupContents(_, _, _)
GroupContents(lines, content_end, g) ==
    IF g.err # NoError \/ g.i >= content_end THEN g
    ELSE IF At(lines, g.i) = <<>> THEN GroupContents(lines, content_end, Skipped(g))
    ELSE IF StartsWith(At(lines, g.i), "LUN")
    THEN GroupContents(lines, content_end,
                       Nested(g, "luns", _parse_lun_block(lines, g.i, g.luns)))
    ELSE IF StartsWith(At(lines, g.i), "INITIATOR")
    THEN GroupContents(lines, content_end,
                       [g EXCEPT !.initiators = Append(@, At(lines, g.i)[2]), !.i = @ + 1])
    ELSE GroupContents(lines, content_end, Attribute(g, "attributes", At(lines, g.i), FALSE))

_parse_group_block(lines, start, groups) ==
    LET Contents(b) ==
            IF b.err # NoError
            THEN [luns |-> Empty, initiators |-> <<>>, attributes |-> Empty, err |-> b.err]
            ELSE GroupContents(lines, b.content_end,
                               [luns |-> Empty, initiators |-> <<>>, attributes |-> Empty,
                                err |-> NoError, i |-> b.content_start])
        Group(b, g) ==
            Block(groups, b, g, With(groups, b.name,
                                     [luns |-> g.luns, initiators |-> g.initiators,
                                      attributes |-> g.attributes]))
        Header(b) == Group(b, Contents(b))
    IN Header(_parse_block_generic(lines, start, "GROUP"))

\* the loop over the lines of a TARGET block of a driver
RECURSIVE TargetContents(_, _, _)
TargetContents(lines, content_end, t) ==
    IF t.err # NoError \/ t.i >= content_end THEN t
    ELSE IF At(lines, t.i) = <<>> THEN TargetContents(lines, content_end, Skipped(t))
    ELSE IF StartsWith(At(lines, t.i), "LUN")
    THEN TargetContents(lines, content_end,
                        Nested(t, "luns", _parse_lun_block(lines, t.i, t.luns)))
    ELSE IF StartsWith(At(lines, t.i), "GROUP")
    THEN TargetContents(lines, content_end,
                        Nested(t, "groups", _parse_group_block(lines, t.i, t.groups)))
    ELSE TargetContents(lines, content_end, Attribute(t, "attributes", At(lines, t.i), TRUE))

_parse_target_block(lines, start, targets) ==
    LET Contents(b) ==
            IF b.err # NoError
            THEN [luns |-> Empty, groups |-> Empty, attributes |-> Empty, err |-> b.err]
            ELSE TargetContents(lines, b.content_end,
                                [luns |-> Empty, groups |-> Empty, attributes |-> Empty,
                                 err |-> NoError, i |-> b.content_start])
        Target(b, t) ==
            Block(targets, b, t, With(targets, b.name,
                                      [luns |-> t.luns, groups |-> t.groups,
                                       attributes |-> t.attributes]))
        Header(b) == Target(b, Contents(b))
    IN Header(_parse_block_generic(lines, start, "TARGET"))

\* the loop over the lines of a TARGET_DRIVER block
RECURSIVE DriverContents(_, _, _)
DriverContents(lines, content_end, d) ==
    IF d.err # NoError \/ d.i >= content_end THEN d
    ELSE IF At(lines, d.i) = <<>> THEN DriverContents(lines, content_end, Skipped(d))
    ELSE IF StartsWith(At(lines, d.i), "TARGET")
    THEN DriverContents(lines, content_end,
                        Nested(d, "targets", _parse_target_block(lines, d.i, d.targets)))
    ELSE DriverContents(lines, content_end, Attribute(d, "attributes", At(lines, d.i), TRUE))

_parse_target_driver_block(lines, start, config) ==
    LET Contents(b) ==
            IF b.err # NoError
            THEN [targets |-> Empty, attributes |-> Empty, err |-> b.err]
            ELSE DriverContents(lines, b.content_end,
                                [targets |-> Empty, attributes |-> Empty,
                                 err |-> NoError, i |-> b.content_start])
        Driver(b, d) ==
            Block(config, b, d,
                  [config EXCEPT !.drivers =
                      With(@, b.name, [targets |-> d.targets, attributes |-> d.attributes])])
        Header(b) == Driver(b, Contents(b))
    IN Header(_parse_block_generic(lines, start, "TARGET_DRIVER"))

\* create_device_config returns None for a handler type it does not know
_create_device_config(device_name, handler_name, attributes) ==
    IF handler_name \in HANDLER_TYPES
    THEN [handler |-> handler_name, attributes |-> attributes, err |-> NoError]
    ELSE [handler |-> handler_name, attributes |-> attributes,
          err |-> ParseError("Unsupported", "DEVICE", 0, 0)]

_parse_device_within_handler(lines, start, config, handler_name) ==
    LET Device(b, device_config) ==
            Block(config, b, device_config,
                  [config EXCEPT !.devices =
                      With(@, b.name, [handler |-> device_config.handler,
                                       attributes |-> device_config.attributes])])
        Header(b) ==
            IF b.err # NoError THEN Raised(config, b.err)
            ELSE Device(b, _create_device_config(
                               b.name, handler_name,
                               _parse_attributes_in_block(lines, b.content_start,
                                                          b.content_end, Empty, FALSE)))
    IN Header(_parse_block_generic(lines, start, "DEVICE"))

\* the loop over the lines of a HANDLER block
RECURSIVE HandlerContents(_, _, _, _)
HandlerContents(lines, content_end, h, handler_name) ==
    IF h.err # NoError \/ h.i >= content_end THEN h
    ELSE IF At(lines, h.i) = <<>>
    THEN HandlerContents(lines, content_end, Skipped(h), handler_name)
    ELSE IF StartsWith(At(lines, h.i), "DEVICE")
    THEN HandlerContents(lines, content_end,
                         Nested(h, "config",
                                _parse_device_within_handler(lines, h.i, h.config,
                                                             handler_name)),
                         handler_name)
    ELSE HandlerContents(lines, content_end,
                         Attribute(h, "handler_config", At(lines, h.i), FALSE), handler_name)

_parse_handler_block(lines, start, config) ==
    LET Contents(b) ==
            IF b.err # NoError
            THEN [config |-> config, handler_config |-> Empty, err |-> b.err]
            ELSE HandlerContents(lines, b.content_end,
                                 [config |-> config, handler_config |-> Empty,
                                  err |-> NoError, i |-> b.content_start], b.name)
        Handler(b, h) ==
            Block(config, b, h,
                  [h.config EXCEPT !.handlers = With(@, b.name, h.handler_config)])
        Header(b) == Handler(b, Contents(b))
    IN Header(_parse_block_generic(lines, start, "HANDLER"))

\* the guard of an attribute line of a DEVICE_GROUP or TARGET_GROUP block
IsGroupAttributeLine(line) == HasEquals(line) \/ (HasSpace(line) /\ Len(line) = 2)

\* tg holds the targets list and the target_attributes dictionary
_parse_target_group_target_block(lines, start, tg) ==
    LET line == At(lines, start)
        target_name == line[2]
        content_start == start + 1
        added == [tg EXCEPT !.targets = Append(@, target_name)]
        Attributes(content_end) ==
            IF content_end = -1
            THEN Raised(tg, ParseError("Unmatched", "TARGET", start + 1, start))
            ELSE Parsed(content_end + 1,
                        [added EXCEPT !.target_attributes =
                            With(@, target_name,
                                 _parse_attributes_in_block(lines, content_start,
                                                            content_end, Empty, FALSE))])
    IN IF Len(line) < 2
       THEN Raised(tg, ParseError("Malformed", "TARGET", start + 1, start))
       ELSE IF ~EndsWithOpen(line) THEN Parsed(start + 1, added)
       ELSE Attributes(_find_closing_brace(lines, content_start))

\* the loop over the lines of a TARGET_GROUP block
RECURSIVE TargetGroupContents(_, _, _)
TargetGroupContents(lines, content_end, tg) ==
    IF tg.err # NoError \/ tg.i >= content_end THEN tg
    ELSE IF At(lines, tg.i) = <<>> THEN TargetGroupContents(lines, content_end, Skipped(tg))
    ELSE IF StartsWith(At(lines, tg.i), "TARGET")
    THEN TargetGroupContents(lines, content_end,
                             Nested(tg, "members",
                                    _parse_target_group_target_block(lines, tg.i, tg.members)))
    ELSE IF IsGroupAttributeLine(At(lines, tg.i))
    THEN TargetGroupContents(lines, content_end,
                             Attribute(tg, "attributes", At(lines, tg.i), FALSE))
    ELSE TargetGroupContents(lines, content_end, Skipped(tg))

_parse_target_group_block(lines, start, target_groups) ==
    LET NoMembers == [targets |-> <<>>, target_attributes |-> Empty]
        Contents(b) ==
            IF b.err # NoError
            THEN [members |-> NoMembers, attributes |-> Empty, err |-> b.err]
            ELSE TargetGroupContents(lines, b.content_end,
                                     [members |-> NoMembers, attributes |-> Empty,
                                      err |-> NoError, i |-> b.content_start])
        TargetGroup(b, tg) ==
            Block(target_groups, b, tg,
                  With(target_groups, b.name,
                       [targets |-> tg.members.targets,
                        target_attributes |-> tg.members.target_attributes,
                        attributes |-> tg.attributes]))
        Header(b) == TargetGroup(b, Contents(b))
    IN Header(_parse_block_generic(lines, start, "TARGET_GROUP"))

\* the loop over the lines of a DEVICE_GROUP block
RECURSIVE DeviceGroupContents(_, _, _)
DeviceGroupContents(lines, content_end, dg) ==
    IF dg.err # NoError \/ dg.i >= content_end THEN dg
    ELSE IF At(lines, dg.i) = <<>> THEN DeviceGroupContents(lines, content_end, Skipped(dg))
    ELSE IF StartsWith(At(lines, dg.i), "DEVICE")
    THEN DeviceGroupContents(lines, content_end,
                             [dg EXCEPT !.devices = Append(@, At(lines, dg.i)[2]), !.i = @ + 1])
    ELSE IF StartsWith(At(lines, dg.i), "TARGET_GROUP")
    THEN DeviceGroupContents(lines, content_end,
                             Nested(dg, "target_groups",
                                    _parse_target_group_block(lines, dg.i, dg.target_groups)))
    ELSE IF IsGroupAttributeLine(At(lines, dg.i))
    THEN DeviceGroupContents(lines, content_end,
                             Attribute(dg, "attributes", At(lines, dg.i), FALSE))
    ELSE DeviceGroupContents(lines, content_end, Skipped(dg))

_parse_device_group_block(lines, start, config) ==
    LET Contents(b) ==
            IF b.err # NoError
            THEN [devices |-> <<>>, target_groups |-> Empty, attributes |-> Empty,
                  err |-> b.err]
            ELSE DeviceGroupContents(lines, b.content_end,
                                     [devices |-> <<>>, target_groups |-> Empty,
                                      attributes |-> Empty, err |-> NoError,
                                      i |-> b.content_start])
        DeviceGroup(b, dg) ==
            Block(config, b, dg,
                  [config EXCEPT !.device_groups =
                      With(@, b.name, [devices |-> dg.devices,
                                       target_groups |-> dg.target_groups,
                                       attributes |-> dg.attributes])])
        Header(b) == DeviceGroup(b, Contents(b))
    IN Header(_parse_block_generic(lines, start, "DEVICE_GROUP"))

\* SCSTConfig()
EmptyConfig ==
    [scst_attributes |-> Empty, handlers |-> Empty, devices |-> Empty,
     drivers |-> Empty, device_groups |-> Empty]

\* the loop of _parse_blocks; r holds the configuration so far, the line
\* numbers of the "Ignoring unrecognized line" warnings, the error raised and
\* the index i of the line to parse
RECURSIVE _parse_blocks(_, _)
_parse_blocks(lines, r) ==
    IF r.err # NoError \/ r.i >= Len(lines) THEN r
    ELSE IF StartsWith(At(lines, r.i), "HANDLER")
    THEN _parse_blocks(lines, Nested(r, "config", _parse_handler_block(lines, r.i, r.config)))
    ELSE IF StartsWith(At(lines, r.i), "TARGET_DRIVER")
    THEN _parse_blocks(lines, Nested(r, "config",
                                     _parse_target_driver_block(lines, r.i, r.config)))
    ELSE IF StartsWith(At(lines, r.i), "DEVICE_GROUP")
    THEN _parse_blocks(lines, Nested(r, "config",
                                     _parse_device_group_block(lines, r.i, r.config)))
    ELSE IF HasEquals(At(lines, r.i)) \/ HasSpace(At(lines, r.i))
    THEN _parse_blocks(lines, [r EXCEPT !.config.scst_attributes =
                                            _parse_single_attribute_line(At(lines, r.i), @, FALSE),
                                        !.i = @ + 1])
    ELSE _parse_blocks(lines, [r EXCEPT !.warnings = Append(@, r.i + 1), !.i = @ + 1])

\* the lines left after stripping: neither blank nor starting with "#"
IsKept(line) == line # <<>> /\ line[1] # "#"
KeptLines(content) == SelectSeq(content, IsKept)

parse_config_text(content) ==
    _parse_blocks(KeptLines(content),
                  [config |-> EmptyConfig, warnings |-> <<>>, err |-> NoError, i |-> 0])

(***************************************************************************)
(* The texts handed to parse_config_text: the lines of one block kind      *)
(* around a short body, after an optional comment and blank line, with or  *)
(* without the last closing brace; and the forms of a LUN statement.       *)
(***************************************************************************)
MaxBody == 3
AttributeLines == {<<"k", "a">>, <<"k", "b">>, <<"j", "=", "\"v1\"">>}
Keywords == {"HANDLER", "TARGET_DRIVER", "DEVICE_GROUP", "DEVICE",
             "TARGET", "GROUP", "TARGET_GROUP", "LUN"}
OtherLines == {<<"garbage">>, <<"}">>, <<"{">>, <<"UNKNOWN", "x", "{">>,
               <<"LUN", "1">>, <<"LUN", "1", "d2">>, <<"LUN", "1", "{">>}
Bodies ==
    {<<>>} \cup {<<l>> : l \in AttributeLines \cup OtherLines \cup {<<kw>> : kw \in Keywords}}
           \cup UNION {[1..n -> AttributeLines] : n \in 2..MaxBody}
Leads == {<<>>, << <<"#", "note">>, <<>> >>}

BlockKinds == {"top", "UNKNOWN", "HANDLER", "DEVICE", "TARGET_DRIVER", "TARGET", "GROUP",
               "LUN", "DEVICE_GROUP", "TARGET_GROUP", "TG_TARGET"}
\* the header lines that open a block of the kind
Headers(kind) ==
    CASE kind = "top" -> <<>>
      [] kind = "UNKNOWN" -> << <<"UNKNOWN", "x", "{">> >>
      [] kind = "HANDLER" -> << <<"HANDLER", "vdisk_fileio", "{">> >>
      [] kind = "DEVICE" -> << <<"HANDLER", "vdisk_fileio", "{">>, <<"DEVICE", "d1", "{">> >>
      [] kind = "TARGET_DRIVER" -> << <<"TARGET_DRIVER", "iscsi", "{">> >>
      [] kind = "TARGET" -> << <<"TARGET_DRIVER", "iscsi", "{">>, <<"TARGET", "t1", "{">> >>
      [] kind = "GROUP" -> << <<"TARGET_DRIVER", "iscsi", "{">>, <<"TARGET", "t1", "{">>,
                              <<"GROUP", "g1", "{">> >>
      [] kind = "LUN" -> << <<"TARGET_DRIVER", "iscsi", "{">>, <<"TARGET", "t1", "{">>,
                            <<"LUN", "0", "d1", "{">> >>
      [] kind = "DEVICE_GROUP" -> << <<"DEVICE_GROUP", "dg1", "{">> >>
      [] kind = "TARGET_GROUP" -> << <<"DEVICE_GROUP", "dg1", "{">>,
                                     <<"TARGET_GROUP", "tg1", "{">> >>
      [] kind = "TG_TARGET" -> << <<"DEVICE_GROUP", "dg1", "{">>,
                                  <<"TARGET_GROUP", "tg1", "{">>, <<"TARGET", "t1", "{">> >>
Closers(n) == [i \in 1..n |-> <<"}">>]

BlockText(lead, kind, body, closed) ==
    lead \o Headers(kind) \o body
         \o Closers(IF closed THEN Len(Headers(kind)) ELSE Len(Headers(kind)) - 1)

LunStatement(device, brace, attrs) ==
    LET header == <<"LUN", "0">> \o (IF device = NoDevice THEN <<>> ELSE <<device>>)
    IN CASE brace = "none" -> <<header>>
         [] brace = "same" -> <<header \o <<"{">> >> \o attrs \o << <<"}">> >>
         [] brace = "next" -> <<header, <<"{">> >> \o attrs \o << <<"}">> >>
LunTrailers == {<<>>, << <<"LUN", "1", "d2">> >>, << <<"k", "a">> >>}
LunAttrs == {<<>>} \cup UNION {[1..n -> AttributeLines] : n \in 1..2}

InitParseWith(a) ==
    /\ arg = a
    /\ pc = "text"
    /\ k = Empty
    /\ tree0 = Empty
    /\ cfg = Empty
    /\ log = <<>>
    /\ raised = FALSE
    /\ warned = 0
    /\ pass = 0
    /\ ret = ""
    /\ clock = 0

InitParse ==
    \/ \E lead \in Leads, kind \in BlockKinds, body \in Bodies, closed \in BOOLEAN :
          /\ kind \in {"top"} => closed
          /\ InitParseWith([family |-> "block", lead |-> lead, kind |-> kind, body |-> body,
                            closed |-> closed,
                            content |-> BlockText(lead, kind, body, closed)])
    \/ \E kind \in {"TARGET", "GROUP"}, device \in {NoDevice, "d1"},
          brace \in {"none", "same", "next"}, attrs \in LunAttrs, trailer \in LunTrailers :
          /\ brace = "none" => attrs = <<>>
          /\ InitParseWith([family |-> "lun", kind |-> kind, device |-> device,
                            brace |-> brace, attrs |-> attrs, trailer |-> trailer,
                            content |-> BlockText(<<>>, kind,
                                                  LunStatement(device, brace, attrs) \o trailer,
                                                  TRUE)])

\* SCSTConfigParser().parse_config_text(content)
Parse ==
    /\ pc = "text"
    /\ pc' = "parsed"
    /\ ret' = parse_config_text(arg.content)
    /\ UNCHANGED <<k, log, cfg, raised, warned, pass, arg, clock, tree0>>

NextParse == Parse
SpecParse == InitParse /\ [][NextParse]_vars

\* the number, in the text, of the line that is at index `at` of the lines
\* kept by parse_config_text
InputLine(content, at) ==
    CHOOSE i \in DOMAIN content :
        /\ IsKept(content[i])
        /\ Cardinality({j \in 1..i : IsKept(content[j])}) = at + 1

\* a block of a known kind, holding attribute lines only, that lacks its
\* last closing brace
IsUnbalancedBlock(a) ==
    /\ a.family = "block"
    /\ a.kind \notin {"top", "UNKNOWN"}
    /\ ~a.closed
    /\ \A i \in DOMAIN a.body : a.body[i] \in AttributeLines

\* C26: parsing a text in which a block's braces are unbalanced fails with a
\* parse error whose line number is the number, in the input text, of a line
\* that opens a block.
C26_UnbalancedReportsInputLine ==
    (pc = "parsed" /\ IsUnbalancedBlock(arg)) =>
        /\ ret.err.kind = "Unmatched"
        /\ EndsWithOpen(arg.content[ret.err.line])
        /\ ret.err.line = InputLine(arg.content, ret.err.at)

\* the keywords that open a block or statement inside a block of the kind
HeaderKeywords(kind) ==
    CASE kind = "top" -> {"HANDLER", "TARGET_DRIVER", "DEVICE_GROUP"}
      [] kind = "HANDLER" -> {"DEVICE"}
      [] kind = "TARGET_DRIVER" -> {"TARGET"}
      [] kind = "TARGET" -> {"GROUP", "LUN"}
      [] kind = "GROUP" -> {"LUN"}
      [] kind = "DEVICE_GROUP" -> {"TARGET_GROUP"}
      [] kind = "TARGET_GROUP" -> {"TARGET"}
      [] OTHER -> {}

\* a well-formed text whose only body line is a header keyword without a name,
\* at the place where a header of that keyword is parsed
IsNamelessHeader(a) ==
    /\ a.family = "block"
    /\ a.closed
    /\ Len(a.body) = 1
    /\ Len(a.body[1]) = 1
    /\ a.body[1][1] \in HeaderKeywords(a.kind)

\* C27: a block header that is the keyword alone on its line makes parsing
\* fail with a parse error that carries the line number of that header.
C27_NamelessHeaderFails ==
    (pc = "parsed" /\ IsNamelessHeader(arg)) =>
        /\ ret.err.kind = "Malformed"
        /\ arg.content[ret.err.line] = arg.body[1]

\* the attributes the parsed configuration holds for the block of the kind
AttributesAt(config, kind) ==
    CASE kind = "top" -> config.scst_attributes
      [] kind = "HANDLER" -> config.handlers["vdisk_fileio"]
      [] kind = "DEVICE" -> config.devices["d1"].attributes
      [] kind = "TARGET_DRIVER" -> config.drivers["iscsi"].attributes
      [] kind = "TARGET" -> config.drivers["iscsi"].targets["t1"].attributes
      [] kind = "GROUP" -> config.drivers["iscsi"].targets["t1"].groups["g1"].attributes
      [] kind = "LUN" -> config.drivers["iscsi"].targets["t1"].luns["0"].attributes
      [] kind = "DEVICE_GROUP" -> config.device_groups["dg1"].attributes
      [] kind = "TARGET_GROUP" -> config.device_groups["dg1"].target_groups["tg1"].attributes
      [] kind = "TG_TARGET" ->
            config.device_groups["dg1"].target_groups["tg1"].target_attributes["t1"]

\* the values the lines give to the key, in order of appearance
RECURSIVE ValuesOf(_, _)
ValuesOf(body, key) ==
    IF body = <<>> THEN <<>>
    ELSE (IF AttributeKey(Head(body)) = key THEN <<AttributeValue(Head(body))>> ELSE <<>>)
         \o ValuesOf(Tail(body), key)
RECURSIVE JoinValues(_)
JoinValues(values) ==
    IF Len(values) = 1 THEN values[1]
    ELSE values[1] \o ";" \o JoinValues(Tail(values))
KeysOf(body) == {AttributeKey(body[i]) : i \in DOMAIN body}
AllValuesJoined(body) == [key \in KeysOf(body) |-> JoinValues(ValuesOf(body, key))]
LastValues(body) ==
    [key \in KeysOf(body) |-> ValuesOf(body, key)[Len(ValuesOf(body, key))]]

\* a well-formed block of the kind that holds attribute lines only
IsAttributeBlock(a) ==
    /\ a.family = "block"
    /\ a.closed
    /\ a.kind # "UNKNOWN"
    /\ a.body # <<>>
    /\ \A i \in DOMAIN a.body : a.body[i] \in AttributeLines

\* C28 as stated: whichever kind of block a repeated attribute key appears
\* in, the parsed model holds for the key all its values joined with ";" in
\* order of appearance.
C28_JoinedInEveryBlock ==
    (pc = "parsed" /\ IsAttributeBlock(arg) /\ arg.kind # "top") =>
        /\ ret.err = NoError
        /\ AttributesAt(ret.config, arg.kind) = AllValuesJoined(arg.body)

\* C28: in a TARGET_DRIVER block and in a TARGET block of a driver the parsed
\* model holds for a repeated key all its values joined with ";" in order of
\* appearance; in every other kind of block, and for the global attributes,
\* it holds the last value only.
C28_JoinedInDriverAndTarget ==
    (pc = "parsed" /\ IsAttributeBlock(arg)) =>
        /\ ret.err = NoError
        /\ AttributesAt(ret.config, arg.kind) =
              IF arg.kind \in {"TARGET_DRIVER", "TARGET"}
              THEN AllValuesJoined(arg.body)
              ELSE LastValues(arg.body)

C28_Witness ==
    /\ pc = "parsed"
    /\ IsAttributeBlock(arg)
    /\ arg.kind = "TARGET"
    /\ arg.body = << <<"k", "a">>, <<"j", "=", "\"v1\"">>, <<"k", "b">> >>
    /\ AttributesAt(ret.config, "TARGET") = [k |-> "a;b", j |-> "v1"]

\* a text that holds nothing but one unrecognized top-level line, or one
\* well-formed block whose keyword is not a block keyword
IsUnrecognizedText(a) ==
    /\ a.family = "block"
    /\ a.closed
    /\ \/ a.kind = "top" /\ a.body = << <<"garbage">> >>
       \/ a.kind = "UNKNOWN" /\ \A i \in DOMAIN a.body : a.body[i] \in AttributeLines

\* C29: an unrecognized top-level line or block is logged and skipped: parsing
\* succeeds and the text contributes no handler, device, driver, device group
\* or global attribute to the parsed model.
C29_UnrecognizedIsSkipped ==
    (pc = "parsed" /\ IsUnrecognizedText(arg)) =>
        /\ ret.err = NoError
        /\ ret.warnings # <<>>
        /\ ret.config = EmptyConfig

\* the LUNs the parsed configuration holds for the TARGET or GROUP block
LunsAt(config, kind) ==
    IF kind = "TARGET" THEN config.drivers["iscsi"].targets["t1"].luns
    ELSE config.drivers["iscsi"].targets["t1"].groups["g1"].luns

\* what the statement "LUN 0 [device] [{ attrs }]" and the line after it
\* are to leave in the enclosing block
ExpectedLuns(a) ==
    LET lun0 == "0" :> [device |-> a.device, attributes |-> LastValues(a.attrs)]
    IN IF a.trailer = << <<"LUN", "1", "d2">> >>
       THEN lun0 @@ ("1" :> [device |-> "d2", attributes |-> Empty])
       ELSE lun0
ExpectedAttributes(a) ==
    IF a.trailer = << <<"k", "a">> >> THEN [k |-> "a"] ELSE Empty

\* C30: a LUN statement parses with or without a device name and with or
\* without an attribute sub-block, whose brace is on the same or on the next
\* line: the LUN has the given number, the device given or none, exactly the
\* attributes of its sub-block, and the line after the statement is parsed as
\* a line of the enclosing block.
C30_LunStatementForms ==
    (pc = "parsed" /\ arg.family = "lun") =>
        /\ ret.err = NoError
        /\ LunsAt(ret.config, arg.kind) = ExpectedLuns(arg)
        /\ AttributesAt(ret.config, arg.kind) = ExpectedAttributes(arg)

(***************************************************************************)
(* scstadmin/readers/target_reader.py: _get_current_target_attrs reading   *)
(* one attribute of a target.  The target directory holds the base file at *)
(* index 0 and the numbered files Attr1, Attr2, ... at their numbers; a    *)
(* file is missing, cannot be read, or holds a first line.                 *)
(***************************************************************************)
MaxVariants == 3
NoFile == "<missing>"
Unreadable == "<unreadable>"
\* what _safe_read_attribute returns for a file it cannot read (None)
NoValue == "<none>"
UserValues == <<"user0", "user1", "user2", "user3", "user4">>
TargetDirs ==
    {dir \in [0..MaxVariants -> {NoFile, Unreadable, ""} \cup Range(UserValues)] :
        \A i \in 0..MaxVariants : dir[i] \in {NoFile, Unreadable, "", UserValues[i + 1]}}

\* os.path.isfile, then read_sysfs_attribute; any error gives None
_safe_read_attribute(dir, i) ==
    IF i \notin DOMAIN dir \/ dir[i] \in {NoFile, Unreadable} THEN NoValue ELSE dir[i]

\* collected_values joined with ";"
RECURSIVE JoinCollected(_)
JoinCollected(collected_values) ==
    IF Len(collected_values) = 1 THEN collected_values[1]
    ELSE collected_values[1] \o ";" \o JoinCollected(Tail(collected_values))

ReadAttr == "IncomingUser"

InitEnumerate ==
    /\ \E f \in MgmtFiles, exists \in BOOLEAN, dir \in TargetDirs :
          /\ ~exists => dir = [i \in 0..MaxVariants |-> NoFile]
          /\ k = [mgmt |-> [drv \in IntrospectedDrivers |-> f], exists |-> exists,
                  files |-> dir]
    /\ tree0 = k
    /\ arg = [counter |-> 0, collected_values |-> <<>>,
              mgmt_info |-> NoMgmtInfo]
    /\ pc = "call"
    /\ ret = Empty
    /\ pass = 0
    /\ cfg = Empty
    /\ log = <<>>
    /\ raised = FALSE
    /\ warned = 0
    /\ clock = 0

\* _get_current_target_attrs(driver, target, {ReadAttr}) up to the read of
\* the base file
ReadBase ==
    /\ pc = "call"
    /\ LET mgmt_info == _get_target_mgmt_info(Empty, k.mgmt, "iscsi")["iscsi"]
           value == _safe_read_attribute(k.files, 0)
       IN IF ~k.exists
          THEN pc' = "done" /\ ret' = Empty /\ arg' = arg
          ELSE IF ReadAttr \in mgmt_info.create_params
          THEN pc' = "done" /\ ret' = Empty /\ arg' = [arg EXCEPT !.mgmt_info = mgmt_info]
          ELSE IF ReadAttr \in mgmt_info.target_attributes
          THEN /\ pc' = "numbered"
               /\ ret' = Empty
               /\ arg' = [counter |-> 1,
                          collected_values |-> IF value \notin {NoValue, ""}
                                               THEN <<value>> ELSE <<>>,
                          mgmt_info |-> mgmt_info]
          ELSE /\ pc' = "done"
               /\ ret' = IF value # NoValue THEN ReadAttr :> value ELSE Empty
               /\ arg' = [arg EXCEPT !.mgmt_info = mgmt_info]
    /\ UNCHANGED <<k, log, cfg, raised, warned, pass, clock, tree0>>

\* ReadNumbered that takes an empty numbered file for the end of the list
ReadNumbered_stop_at_empty ==
    /\ pc = "numbered"
    /\ LET value == _safe_read_attribute(k.files, arg.counter)
       IN IF value \notin {NoValue, ""}
          THEN /\ arg' = [arg EXCEPT !.counter = @ + 1,
                                     !.collected_values = Append(@, value)]
               /\ UNCHANGED <<pc, ret>>
          ELSE /\ pc' = "done"
               /\ ret' = IF arg.collected_values # <<>>
                         THEN ReadAttr :> JoinCollected(arg.collected_values)
                         ELSE Empty
               /\ arg' = arg
    /\ UNCHANGED <<k, log, cfg, raised, warned, pass, clock, tree0>>

\* one turn of the loop over the numbered files, and the store after it
ReadNumbered ==
    /\ pc = "numbered"
    /\ LET value == _safe_read_attribute(k.files, arg.counter)
       IN IF value # NoValue
          THEN /\ arg' = [arg EXCEPT !.counter = @ + 1,
                                     !.collected_values =
                                         IF value # "" THEN Append(@, value) ELSE @]
               /\ UNCHANGED <<pc, ret>>
          ELSE /\ pc' = "done"
               /\ ret' = IF arg.collected_values # <<>>
                         THEN ReadAttr :> JoinCollected(arg.collected_values)
                         ELSE Empty
               /\ arg' = arg
    /\ UNCHANGED <<k, log, cfg, raised, warned, pass, clock, tree0>>

NextEnumerate == ReadBase \/ ReadNumbered
SpecEnumerate == InitEnumerate /\ [][NextEnumerate]_vars /\ WF_vars(NextEnumerate)

\* what the driver's management file lists now
ListedNow == _parse_target_mgmt_interface(k.mgmt, "iscsi")
HasValue(v) == v \notin {NoFile, Unreadable, ""}
\* the first number n >= 1 whose file is missing / is missing or unreadable
FirstMissing(dir) ==
    CHOOSE n \in 1..(MaxVariants + 1) :
        /\ n \notin DOMAIN dir \/ dir[n] = NoFile
        /\ \A m \in 1..(n - 1) : dir[m] # NoFile
FirstNotRead(dir) ==
    CHOOSE n \in 1..(MaxVariants + 1) :
        /\ n \notin DOMAIN dir \/ dir[n] \in {NoFile, Unreadable}
        /\ \A m \in 1..(n - 1) : dir[m] \notin {NoFile, Unreadable}
\* the non-empty values of the base file and of the numbered files below n,
\* in order, as the reader is to report them
ReportedUpTo(dir, n) ==
    LET values == SelectSeq([i \in 1..n |-> dir[i - 1]], HasValue)
    IN IF values = <<>> THEN Empty ELSE ReadAttr :> JoinValues(values)

FactoryHandlers == HANDLER_TYPES \cup {"vcdrom", "vdisk_nullio", "dev_tape"}
FactoryNames == {"", "d1", "d2"}

\* DeviceConfig.__post_init__ refuses an empty name; every from_attributes
\* takes the filename out of the attributes, "" when there is none
create_device_config(name, handler_type, attrs) ==
    IF handler_type \notin HANDLER_TYPES THEN [outcome |-> "None"]
    ELSE IF name = "" THEN [outcome |-> "ValueError"]
    ELSE [outcome |-> "config", name |-> name, handler_type |-> handler_type,
          filename |-> IF "filename" \in DOMAIN attrs THEN attrs["filename"] ELSE "",
          attributes |-> Without(attrs, {"filename"})]

\* SCSTConfigParser._create_device_config: None and ValueError become SCSTError
ParserDeviceConfig(name, handler_type, attrs) ==
    IF create_device_config(name, handler_type, attrs).outcome = "config"
    THEN create_device_config(name, handler_type, attrs)
    ELSE [outcome |-> "SCSTError"]

\* DeviceReader._create_minimal_device_config: None and ValueError are
\* logged and None is returned
_create_minimal_device_config(device_name, handler_type) ==
    IF create_device_config(device_name, handler_type, [filename |-> ""]).outcome = "config"
    THEN create_device_config(device_name, handler_type, [filename |-> ""])
    ELSE [outcome |-> "None"]

InitFactory ==
    /\ \E name \in FactoryNames, handler_type \in FactoryHandlers,
          attrs \in AttrMaps({"filename", "read_only", "prod_id"}) :
          arg = [name |-> name, handler_type |-> handler_type, attrs |-> attrs]
    /\ pc = "input"
    /\ ret = ""
    /\ k = Empty
    /\ tree0 = Empty
    /\ cfg = Empty
    /\ log = <<>>
    /\ raised = FALSE
    /\ warned = 0
    /\ pass = 0
    /\ clock = 0

CreateDeviceConfig ==
    /\ pc = "input"
    /\ pc' = "factory"
    /\ ret' = create_device_config(arg.name, arg.handler_type, arg.attrs)
    /\ raised' = (ret'.outcome = "ValueError")
    /\ UNCHANGED <<k, log, cfg, warned, pass, arg, clock, tree0>>

ParserCreateDeviceConfig ==
    /\ pc = "input"
    /\ pc' = "parser"
    /\ ret' = ParserDeviceConfig(arg.name, arg.handler_type, arg.attrs)
    /\ raised' = (ret'.outcome = "SCSTError")
    /\ UNCHANGED <<k, log, cfg, warned, pass, arg, clock, tree0>>

ReaderCreateDeviceConfig ==
    /\ pc = "input"
    /\ pc' = "reader"
    /\ ret' = _create_minimal_device_config(arg.name, arg.handler_type)
    /\ warned' = IF ret'.outcome = "None" THEN 1 ELSE 0
    /\ UNCHANGED <<k, log, cfg, raised, pass, arg, clock, tree0>>

NextFactory == CreateDeviceConfig \/ ParserCreateDeviceConfig \/ ReaderCreateDeviceConfig
SpecFactory == InitFactory /\ [][NextFactory]_vars

\* C32: constructing a device entity for a handler type that is not
\* vdisk_fileio, vdisk_blockio or dev_disk fails with an error: no call of the
\* factory, directly or through the parser or the reader, returns normally.
C32_UnknownHandlerFails ==
    (pc \in {"factory", "parser", "reader"} /\ arg.handler_type \notin HANDLER_TYPES) => raised

\* an initiator group that is live and desired with the same initiators and
\* the same LUN numbers, where LUN n is live-mapped to another device
IsRemappedGroupLun(key, g, n) ==
    /\ key \in DOMAIN tree0.tgt /\ key \in DOMAIN cfg.tgt
    /\ g \in DOMAIN tree0.tgt[key].groups /\ g \in DOMAIN cfg.tgt[key].groups
    /\ tree0.tgt[key].groups[g].inis = cfg.tgt[key].groups[g].inis
    /\ DOMAIN tree0.tgt[key].groups[g].luns = DOMAIN cfg.tgt[key].groups[g].luns
    /\ n \in DOMAIN cfg.tgt[key].groups[g].luns
    /\ tree0.tgt[key].groups[g].luns[n] # cfg.tgt[key].groups[g].luns[n]

\* C33: when an existing initiator group maps LUN n to device X and the
\* configuration maps LUN n of that group to device Y, with the same LUN
\* numbers and the same initiators, the group maps LUN n to Y after apply.
C33_GroupLunRemapped ==
    Returned(1) =>
        \A key \in DOMAIN cfg.tgt : \A g \in DOMAIN cfg.tgt[key].groups : \A n \in Luns :
            IsRemappedGroupLun(key, g, n) =>
                /\ key \in DOMAIN k.tgt /\ g \in DOMAIN k.tgt[key].groups
                /\ n \in DOMAIN k.tgt[key].groups[g].luns
                /\ k.tgt[key].groups[g].luns[n] = cfg.tgt[key].groups[g].luns[n]

(***************************************************************************)
(* apply_configuration when a device that LUNs map to leaves the           *)
(* configuration or has to be created anew.                                *)
(***************************************************************************)
MappedGroups(ds) == PFun({"g1"}, {[inis |-> {"i1"}, luns |-> [l \in {"0"} |-> d]] : d \in ds})

\* d1 and d2 are live and mapped by the direct LUNs and by group g1 of the
\* live target t1; the configuration keeps t1, drops a device or changes its
\* filename, and maps LUNs to the devices it keeps
ReplacedDeviceScenarios ==
    {[k |-> [BaseK(ScenarioDevs) EXCEPT
               !.tgt = [key \in {T1} |-> [NewTarget EXCEPT !.luns = sc.l, !.groups = sc.lg]] @@ @],
      cfg |-> [BaseCfg(ScenarioDevs) EXCEPT
                 !.dev = sc.dc,
                 !.tgt = [key \in {T1} |-> [attrs |-> Empty, luns |-> sc.cl, groups |-> sc.cg]]]] :
        sc \in UNION {[l : PFun(Luns, ScenarioDevs), lg : MappedGroups(ScenarioDevs), dc : {dc},
                       cl : PFun(Luns, DOMAIN dc), cg : MappedGroups(DOMAIN dc)] :
                      dc \in PFun(ScenarioDevs,
                                  {DefaultDevConfig,
                                   [DefaultDevConfig EXCEPT !.creation = [a \in {"filename"} |-> "f1"]]})}}

InitReplace ==
    /\ StartsFrom(ReplacedDeviceScenarios)
    /\ pc = "remove"
    /\ log = <<>>
    /\ raised = FALSE
    /\ warned = 0
    /\ pass = 1
    /\ arg = Idle
    /\ ret = ""
    /\ clock = 0

SpecReplace == InitReplace /\ [][Next]_vars

\* target t maps a LUN, directly or inside an initiator group, to device d
MapsTo(t, d) ==
    \/ \E l \in DOMAIN t.luns : t.luns[l] = d
    \/ \E g \in DOMAIN t.groups : \E l \in DOMAIN t.groups[g].luns : t.groups[g].luns[l] = d

\* C34: when apply_configuration writes del_device for a device, no target
\* of the desired configuration (copy_manager_tgt with its kernel-managed
\* LUNs aside) maps a LUN to that device in the tree of that moment: the
\* LUNs were deleted or remapped first.
C34_LunsGoBeforeDevice ==
    pass = 1 =>
        \A i \in 1..Len(log) :
            (log[i].kind = "handler_mgmt" /\ log[i].op = "del_device") =>
                \A key \in (DOMAIN cfg.tgt \ {CM}) \cap DOMAIN Replay(tree0, SubSeq(log, 1, i - 1)).tgt :
                    ~MapsTo(Replay(tree0, SubSeq(log, 1, i - 1)).tgt[key], log[i].x)

\* the last write to the suspend file that the kernel accepted was a suspend
LastWrittenIsSuspend ==
    \E i \in 1..Len(log) :
        /\ log[i].kind = "suspend" /\ log[i].ok /\ log[i].y # "-1"
        /\ \A j \in (i + 1)..Len(log) : ~(log[j].kind = "suspend" /\ log[j].ok)

\* C35: after any sequence of suspend_scst_io and resume_scst_io calls,
\* failed writes included, suspend_count is greater than 0 exactly when the
\* last value this instance wrote successfully was a suspend.
C35_CountAgreesWithSuspendFile == (arg.suspend_count > 0) <=> LastWrittenIsSuspend

\* the register holds the result of a finished operation that failed
DefinitiveFailure == k.res \notin {"missing", "pending", SUCCESS_RESULT}

\* a poll of _wait_for_completion that reads a definitive failure ends the
\* call with the SCSTError of that result
FailedPollStep ==
    (pc = "wait" /\ Polling(arg.start, clock, arg.timeout) /\ DefinitiveFailure
        /\ (pc' # pc \/ clock' # clock))
    => (pc' = "raised" /\ ret' = "SCSTError")

\* C36: when a poll after an EAGAIN write finds a definitive non-success
\* result in the result register, write_sysfs fails with that result; it
\* does not sleep and poll the same result again until the timeout.
C36_DefinitiveFailureEndsPolling == [][FailedPollStep]_vars

(***************************************************************************)
(* The creation of a target whose driver lists creation parameters in its  *)
(* mgmt help ("The following parameters available: ...").  arg holds the   *)
(* mgmt info of the iscsi driver as TargetReader parsed it.                *)
(***************************************************************************)
\* TargetReader._get_target_create_params
_get_target_create_params(mgmt_info, target_attrs) ==
    Restrict(target_attrs, DOMAIN target_attrs \cap mgmt_info.create_params)

\* TargetWriter.ensure_hardware_targets_enabled returns when the directory
\* of the driver is not there; otherwise it lists the directory and reads
\* self.DRIVER_ATTRIBUTES, which TargetWriter does not define: the
\* AttributeError is not an SCSTError and leaves the method
ensure_hardware_targets_enabled(w, driver_name) ==
    IF w.exc \/ driver_name \notin DOMAIN w.k.drv THEN w
    ELSE [w EXCEPT !.exc = TRUE]

\* apply_config_assignments for a target that does not exist
create_config_target(w, c, key, mgmt_info) ==
    LET tc == c.tgt[key]
        creation_params == _get_target_create_params(mgmt_info, tc.attrs)
        prepared == IF DOMAIN creation_params # {}
                    THEN ensure_hardware_targets_enabled(w, key[1])
                    ELSE w
        created == Write(prepared, Cmd("driver_mgmt", <<key[1]>>, "add_target", key[2], "",
                                       creation_params))
        remaining_attrs == Without(tc.attrs, DOMAIN creation_params)
        attrd == IF DOMAIN remaining_attrs # {}
                 THEN set_target_attributes(created, key, remaining_attrs)
                 ELSE created
    IN apply_group_assignments(apply_lun_assignments(attrd, key, tc), key, tc)

MgmtInfos == [create_params : {{}, {"IncomingUser"}}]

\* a desired target t1 that is not live; IncomingUser is in the
\* configuration only where the driver takes it at creation
CreatedTargetScenarios ==
    {[k |-> BaseK(ScenarioDevs),
      cfg |-> [BaseCfg(ScenarioDevs) EXCEPT
                 !.tgt = [key \in {T1} |-> [attrs |-> sc.attrs @@ sc.user, luns |-> sc.luns,
                                           groups |-> sc.groups]]],
      mgmt_info |-> sc.mgmt_info] :
        sc \in UNION {[attrs : TargetAttrConfigs, luns : PFun(Luns, ScenarioDevs),
                       groups : MappedGroups(ScenarioDevs), mgmt_info : {m},
                       user : PFun(m.create_params, {"u1 s1"})] : m \in MgmtInfos}}

InitCreate ==
    /\ \E sc \in CreatedTargetScenarios :
          k = sc.k /\ cfg = sc.cfg /\ tree0 = sc.k /\ arg = sc.mgmt_info
    /\ pc = "assignments"
    /\ log = <<>>
    /\ raised = FALSE
    /\ warned = 0
    /\ pass = 1
    /\ ret = ""
    /\ clock = 0

CreateTargets ==
    Phase("assignments", "done",
          FoldSeq(LAMBDA v, key : IF _target_exists(v.k, key)
                                  THEN apply_config_target(v, cfg, key)
                                  ELSE create_config_target(v, cfg, key, arg),
                  Now, Ordered(AllTgtSeq, DOMAIN cfg.tgt)))

NextCreate == CreateTargets
SpecCreate == InitCreate /\ [][NextCreate]_vars

IsAddTarget(e, key, creation_params) ==
    /\ e.kind = "driver_mgmt" /\ e.op = "add_target"
    /\ e.p = <<key[1]>> /\ e.x = key[2]
    /\ e.v = creation_params

\* C37: for a desired target that is not live and whose attributes include
\* creation parameters of its driver, apply_config_assignments writes
\* add_target with exactly those parameters; the step that enables the
\* hardware targets never keeps the add_target from being written.
C37_AddTargetIssued ==
    pc \in {"done", "failed"} =>
        \A key \in DOMAIN cfg.tgt \ DOMAIN tree0.tgt :
            DOMAIN _get_target_create_params(arg, cfg.tgt[key].attrs) # {} =>
                \E i \in 1..Len(log) :
                    IsAddTarget(log[i], key, _get_target_create_params(arg, cfg.tgt[key].attrs))

\* the step of clear_configuration a write belongs to
ClearStage(c) ==
    CASE c.kind = "suspend" -> 0
      [] c.kind = "driver_attr" -> 1
      [] c.kind \in {"dg_mgmt", "dg_devices_mgmt", "dg_tgroups_mgmt", "tg_mgmt", "tg_target_attr"} -> 2
      [] c.kind \in {"target_attr", "force_close", "luns_mgmt", "group_luns_mgmt", "groups_mgmt",
                     "driver_mgmt"} -> 3
      [] c.kind = "handler_mgmt" -> 4
      [] OTHER -> 5

HasLuns(t) ==
    \/ DOMAIN t.luns # {}
    \/ \E g \in DOMAIN t.groups : DOMAIN t.groups[g].luns # {}

\* C39: clear_configuration writes 0 to the enabled flag of the drivers,
\* then removes the device groups, then the targets (of copy_manager_tgt
\* only the LUNs are cleared), and writes del_device last; when no write is
\* refused, no target holds a LUN any more when the first del_device is
\* written.
C39_ClearOrder ==
    (arg.op = "clear" /\ pc = "done") =>
        /\ \A i \in 2..Len(log) :
              log[i].kind # "suspend" => ClearStage(log[i - 1]) <= ClearStage(log[i])
        /\ \A i \in 1..Len(log) :
              (log[i].kind = "handler_mgmt" /\ log[i].op = "del_device" /\ tree0.broken = {}) =>
                  \A key \in DOMAIN Replay(tree0, SubSeq(log, 1, i - 1)).tgt :
                      ~HasLuns(Replay(tree0, SubSeq(log, 1, i - 1)).tgt[key])

(***************************************************************************)
(* The two callers of remove_target, clear_configuration and the removal   *)
(* of what conflicts with a configuration that names no target and no      *)
(* device, over a tree with two targets while the control plane refuses    *)
(* none or one kind of the writes of remove_target.                        *)
(***************************************************************************)
T2 == <<"iscsi", "t2">>

SecondTarget ==
    [NewTarget EXCEPT !.luns = [l \in {"0"} |-> "d1"],
                      !.groups = [g \in {"g1"} |-> [inis |-> {"i1"}, luns |-> [l \in {"0"} |-> "d1"]]]]

InitCallers ==
    /\ \E sc \in RemoveScenarios, b \in Faults(RemoveWrites) :
          /\ sc.tgt[T1].stuck \subseteq sc.tgt[T1].sessions
          /\ k = [sc EXCEPT !.tgt = [key \in {T2} |-> SecondTarget] @@ @, !.broken = b]
    /\ tree0 = k
    /\ cfg = BaseCfg({})
    /\ \E op \in {"clear", "remove"} : pc = op /\ arg = [Admin(0) EXCEPT !.op = op]
    /\ log = <<>>
    /\ raised = FALSE
    /\ warned = 0
    /\ pass = 1
    /\ ret = ""
    /\ clock = 0

NextCallers == Clear \/ RemoveConflicting
SpecCallers == InitCallers /\ [][NextCallers]_vars

\* a write of the removal of target key
RemovalWrite(c, key) ==
    \/ c.kind \in {"target_attr", "force_close", "luns_mgmt", "group_luns_mgmt", "groups_mgmt"}
       /\ TgtKey(c) = key
    \/ c.kind = "driver_mgmt" /\ c.op = "del_target" /\ <<c.p[1], c.x>> = key

RefusedRemovalWrites(kinds) ==
    {i \in DOMAIN log : ~log[i].ok /\ log[i].kind \in kinds
                        /\ \E key \in DOMAIN tree0.tgt : RemovalWrite(log[i], key)}

\* no SCSTError leaves remove_target: the caller ends without an exception
\* after it took up the removal of every target and issued del_device for
\* every device
CallerWentOn ==
    /\ ~raised /\ pc # "failed"
    /\ \A key \in DOMAIN tree0.tgt \ {CM} : \E i \in DOMAIN log : RemovalWrite(log[i], key)
    /\ \A d \in DOMAIN tree0.dev :
          \E i \in DOMAIN log : log[i].kind = "handler_mgmt" /\ log[i].op = "del_device" /\ log[i].x = d

VariantDirs ==
    {dir \in [0..MaxVariants -> {NoFile} \cup Range(UserValues)] :
        \A i \in 0..MaxVariants : dir[i] \in {NoFile, UserValues[i + 1]}}

DesiredParts == {"user0", "user2", "user4"}
DesiredValues == {<<>>} \cup {<<a>> : a \in DesiredParts} \cup {<<a, b>> : a, b \in DesiredParts}

LiveValues(dir) == {dir[i] : i \in DOMAIN dir} \ {NoFile}

\* write_sysfs(driver_mgmt, "<op> <target> IncomingUser <value>")
AttributeWrite(w, op, value) ==
    LET ok == IF op = "add_target_attribute"
              THEN /\ value \notin LiveValues(w.k.files)
                   /\ \E i \in DOMAIN w.k.files : w.k.files[i] = NoFile
              ELSE value \in LiveValues(w.k.files)
        slot == IF op = "add_target_attribute"
                THEN CHOOSE i \in DOMAIN w.k.files :
                        /\ w.k.files[i] = NoFile
                        /\ \A j \in 0..(i - 1) : w.k.files[j] # NoFile
                ELSE CHOOSE i \in DOMAIN w.k.files : w.k.files[i] = value
    IN [k |-> IF ok
              THEN [files |-> [w.k.files EXCEPT ![slot] = IF op = "add_target_attribute"
                                                         THEN value ELSE NoFile]]
              ELSE w.k,
        log |-> Append(w.log, Cmd("driver_mgmt", <<"iscsi">>, op, "t1", value, Empty) @@ [ok |-> ok]),
        exc |-> FALSE,
        warn |-> IF ok \/ op = "del_target_attribute" THEN w.warn ELSE w.warn + 1]

\* the base file and the numbered files up to the first missing number are
\* read, then every value found is deleted
_remove_target_mgmt_attribute(w) ==
    FoldSeq(LAMBDA v, value : AttributeWrite(v, "del_target_attribute", value),
            w, SelectSeq([i \in 1..FirstMissing(w.k.files) |-> w.k.files[i - 1]], HasValue))

\* set_target_attributes for the attribute: one command per part, empty
\* parts skipped
set_target_mgmt_attribute(w, values) ==
    FoldSeq(LAMBDA v, value : IF value = "" THEN v ELSE AttributeWrite(v, "add_target_attribute", value),
            w, values)

\* update_target_attributes(driver, target, desired_attrs, current_attrs)
\* for the one attribute; current_value is NoValue when current_attrs does
\* not hold it
update_target_mgmt_attribute(w, desired, current_value) ==
    IF desired = <<>>
    THEN IF current_value # NoValue THEN _remove_target_mgmt_attribute(w) ELSE w
    ELSE IF current_value = JoinCollected(desired) THEN w
    ELSE set_target_mgmt_attribute(_remove_target_mgmt_attribute(w), desired)

\* what _get_current_target_attrs reports for the attribute
CurrentValue(dir) == Get(ReportedUpTo(dir, FirstNotRead(dir)), ReadAttr, NoValue)

InitUpdate ==
    /\ \E dir \in VariantDirs : k = [files |-> dir]
    /\ tree0 = k
    /\ \E desired \in DesiredValues : arg = [desired |-> desired]
    /\ pc = "call"
    /\ ret = ""
    /\ cfg = Empty
    /\ log = <<>>
    /\ raised = FALSE
    /\ warned = 0
    /\ pass = 1
    /\ clock = 0

UpdateTargetAttribute ==
    Phase("call", "done", update_target_mgmt_attribute(Now, arg.desired, CurrentValue(k.files)))

NextUpdate == UpdateTargetAttribute
SpecUpdate == InitUpdate /\ [][NextUpdate]_vars

\* C40: when the live value of a management-controlled target attribute
\* differs from the desired one, the update writes del_target_attribute for
\* every existing variant, then one add_target_attribute per desired part,
\* and the live values of the attribute are exactly the desired ones
\* afterwards.
C40_VariantsReplaced ==
    (pc = "done" /\ arg.desired # <<>> /\ LiveValues(tree0.files) # Range(arg.desired)) =>
        /\ \A v \in LiveValues(tree0.files) :
              \E i \in DOMAIN log : log[i].op = "del_target_attribute" /\ log[i].y = v
        /\ \A i, j \in DOMAIN log :
              (log[i].op = "del_target_attribute" /\ log[j].op = "add_target_attribute") => i < j
        /\ \A v \in Range(arg.desired) :
              \E i \in DOMAIN log : log[i].op = "add_target_attribute" /\ log[i].y = v
        /\ LiveValues(k.files) = Range(arg.desired)
====
